---- MODULE Spec2Model ----
(***************************************************************************)
(* WARDROBIFY: a model of the root coordinator (App), the Wardrobe,        *)
(* Wishlist and Stylist views, the weather card and the AI adapter         *)
(* (geminiService).                                                        *)
(*                                                                         *)
(* Conventions.                                                            *)
(*  - A JavaScript string is a TLA+ string; the string operations the     *)
(*    code uses (split, toLowerCase, includes, parseFloat, toString) are   *)
(*    computed character by character.                                     *)
(*  - A value parsed from JSON, or returned by the adapter, is a tagged    *)
(*    record: JNull, JNum(n) or Obj(keys, val), where keys is the          *)
(*    insertion order of the keys and val maps each key to its value.  A   *)
(*    key whose value is undefined is left out of both.                    *)
(*  - A string-or-null piece of React state holds the string null when it  *)
(*    is null.                                                             *)
(*  - The entities kept in collections (ClothingItem, WishlistItem,        *)
(*    ScheduleEvent) are plain records.                                    *)
(*  - An asynchronous operation is returned as Return(v) (the promise      *)
(*    resolves with v) or Throw (it rejects).                              *)
(*  - A view is mounted while it is the current view: leaving it resets   *)
(*    its local state, and what it left in flight completes unmounted.     *)
(*                                                                         *)
(* Specifications.                                                         *)
(*    SpecAdapter   the five operations of the adapter, call by call       *)
(*    SpecWeather   the weather fetch at startup and the weather card      *)
(*    SpecWardrobe  the Wardrobe view: uploads, deletions, navigation      *)
(*    SpecFilter    the filters of the Wardrobe view over built wardrobes  *)
(*    SpecWishlist  the Wishlist view: uploads, the form, deletions        *)
(*    SpecStylist   the Stylist view                                       *)
(*    Spec          a session over wardrobe, wishlist and schedule         *)
(*    SpecRender    the outfit rendering of the Stylist view, call by call *)
(*    SpecNavigation  navigation over the four views                       *)
(*    SpecSchedule  the schedule of the dashboard and its display          *)
(*    SpecFrames    a session over the collections with the Stylist view   *)
(*    SpecFacets    the color filter over a wardrobe of many colors        *)
(*    SpecLoading   the four loading flags, under calls that all complete  *)
(***************************************************************************)
EXTENDS Bags, FiniteSets, Integers, Sequences, TLC

VARIABLES
    \* App (root coordinator)
    currentView, wardrobe, wishlist, events,
    isEventModalOpen, newEvent, eventToDelete,
    weather, weatherLoading, weatherError,
    \* where the weather effect stands, and the fetches it has issued
    geo, weatherRequests,
    \* the environment: the clock read by Date.now(), the last alert() shown
    now, lastAlert,
    \* Wardrobe view
    Wardrobe_isAnalyzing, activeCategory, activeColor, Wardrobe_itemToDelete,
    Wardrobe_uploads,
    \* Wishlist view
    name, price, brand, previewImage, Wishlist_isAnalyzing, analysisResult,
    Wishlist_itemToDelete, Wishlist_uploads,
    \* Stylist view
    vibeInput, mode, generatedOutfit, weeklyPlan, isLoading, Stylist_requests,
    \* the adapter called on its own: the last call and what it returned
    call

appVars == <<currentView, wardrobe, wishlist, events, isEventModalOpen, newEvent,
             eventToDelete, now, lastAlert>>
weatherVars == <<weather, weatherLoading, weatherError, geo, weatherRequests>>
wardrobeVars == <<Wardrobe_isAnalyzing, activeCategory, activeColor,
                  Wardrobe_itemToDelete, Wardrobe_uploads>>
wishlistVars == <<name, price, brand, previewImage, Wishlist_isAnalyzing,
                  analysisResult, Wishlist_itemToDelete, Wishlist_uploads>>
stylistVars == <<vibeInput, mode, generatedOutfit, weeklyPlan, isLoading,
                 Stylist_requests>>
vars == <<appVars, weatherVars, wardrobeVars, wishlistVars, stylistVars, call>>

-----------------------------------------------------------------------------
(* Bounds of the model *)

\* how many times the clock read by Date.now() advances
MaxTicks == 1
\* how many elements and uploads the model adds to what the app starts with
MaxItems == 2
\* how many requests of one view may be outstanding at once
MaxInflight == 2

-----------------------------------------------------------------------------
(* JavaScript values *)

null == "<null>"

JNull == [type |-> "null"]
JNum(n) == [type |-> "number", n |-> n]
Obj(keys, val) == [type |-> "object", keys |-> keys, val |-> val]

\* o.k is defined (o is an object that has the key)
HasProp(o, k) == o.type = "object" /\ k \in DOMAIN o.val
\* reading a property of null throws a TypeError; of anything else it does not
CanRead(o) == o.type # "null"
\* (o.k || d) for a string-valued key
StrOr(o, k, d) == IF HasProp(o, k) /\ o.val[k] # "" THEN o.val[k] ELSE d
\* truthiness of a string-or-null value
Truthy(s) == s # null /\ s # ""

Return(v) == [ok |-> TRUE, v |-> v]
Throw == [ok |-> FALSE]

\* Object.entries: the keys in insertion order (nothing for a non-object)
ObjectEntries(o) ==
    IF o.type = "object" THEN [i \in 1..Len(o.keys) |-> <<o.keys[i], o.val[o.keys[i]]>>]
    ELSE <<>>

RECURSIVE DigitsOf(_)
DigitsOf(n) ==
    IF n < 10 THEN SubSeq("0123456789", n + 1, n + 1)
    ELSE DigitsOf(n \div 10) \o SubSeq("0123456789", (n % 10) + 1, (n % 10) + 1)

DateNowToString_fresh == DigitsOf(now + Len(wardrobe) + Len(wishlist) + Len(events))

\* Date.now().toString()
DateNowToString == DigitsOf(now)

\* the number a string of digits writes
RECURSIVE NumberOf(_)
NumberOf(str) ==
    IF Len(str) = 0 THEN 0
    ELSE 10 * NumberOf(SubSeq(str, 1, Len(str) - 1))
         + (CHOOSE d \in 0..9 : SubSeq("0123456789", d + 1, d + 1) = SubSeq(str, Len(str), Len(str)))

-----------------------------------------------------------------------------
(* The external model call (ai.models.generateContent).  Its outcome is the *)
(* model's input: the request is rejected, or it resolves with a response   *)
(* whose text is empty, is not JSON, or is the JSON text of a value.        *)

Rejected == [kind |-> "rejected"]
EmptyText == [kind |-> "empty"]
NotJson == [kind |-> "text", valid |-> FALSE]
Json(v) == [kind |-> "text", valid |-> TRUE, value |-> v]

\* JSON.parse(response.text)
JSONparse(response) == IF response.valid THEN Return(response.value) ELSE Throw

-----------------------------------------------------------------------------
(* geminiService: the AI adapter *)

\* the keys among ks that o defines, with their values
PickProps(o, ks) == [k \in {x \in ks : HasProp(o, x)} |-> o.val[k]]
KeysIn(o, order) == SelectSeq(order, LAMBDA k : HasProp(o, k))

AnalyzeDefault ==
    Obj(<<"category", "color", "season", "description">>,
        [category |-> "Other", color |-> "Unknown", season |-> "All",
         description |-> "Could not analyze image."])

\* the try block of analyzeClothingItem
analyzeClothingItem_try(outcome) ==
    IF outcome.kind = "rejected" THEN Throw
    ELSE IF outcome.kind = "text" THEN JSONparse(outcome)
    ELSE Throw  \* throw new Error("No data returned")

analyzeClothingItem_rethrow(outcome) == analyzeClothingItem_try(outcome)

analyzeClothingItem(outcome) ==
    LET r == analyzeClothingItem_try(outcome)
    IN  IF r.ok THEN r ELSE Return(AnalyzeDefault)

\* { id, itemIds: result.itemIds, vibe: result.vibe || fallback, explanation: result.explanation }
OutfitOf(result, fallback) ==
    Obj(<<"id">> \o KeysIn(result, <<"itemIds">>) \o <<"vibe">>
            \o KeysIn(result, <<"explanation">>),
        [id |-> DateNowToString, vibe |-> StrOr(result, "vibe", fallback)]
            @@ PickProps(result, {"itemIds", "explanation"}))

\* the try block shared by generateOutfit and generateOutfitFromImage
generateOutfit_try(fallback, outcome) ==
    IF outcome.kind = "rejected" THEN Throw
    ELSE IF outcome.kind = "text"
         THEN LET result == JSONparse(outcome)
              IN  IF ~result.ok THEN Throw
                  ELSE IF ~CanRead(result.v) THEN Throw
                  ELSE Return(OutfitOf(result.v, fallback))
         ELSE Return(JNull)

generateOutfit(w, weatherContext, vibe, outcome) ==
    IF Len(w) = 0 THEN Return(JNull)
    ELSE LET r == generateOutfit_try(vibe, outcome)
         IN  IF r.ok THEN r ELSE Return(JNull)

generateOutfitFromImage(w, inspoImageBase64, outcome) ==
    IF Len(w) = 0 THEN Return(JNull)
    ELSE LET r == generateOutfit_try("Inspo Match", outcome)
         IN  IF r.ok THEN r ELSE Return(JNull)

generateWeeklyPlan_try(outcome) ==
    IF outcome.kind = "rejected" THEN Throw
    ELSE IF outcome.kind = "text" THEN JSONparse(outcome)
    ELSE Return(JNull)

generateWeeklyPlan_unguarded(w, weatherContext, theme, outcome) ==
    LET r == generateWeeklyPlan_try(outcome)
    IN  IF r.ok THEN r ELSE Return(JNull)

generateWeeklyPlan(w, weatherContext, theme, outcome) ==
    IF Len(w) = 0 THEN Return(JNull)
    ELSE LET r == generateWeeklyPlan_try(outcome)
         IN  IF r.ok THEN r ELSE Return(JNull)

SimilarityResult(isSimilar, explanation) ==
    Obj(<<"isSimilar", "explanation">>,
        [isSimilar |-> isSimilar, explanation |-> explanation])

checkSimilarity_try(outcome) ==
    IF outcome.kind = "rejected" THEN Throw
    ELSE IF outcome.kind = "text" THEN JSONparse(outcome)
    ELSE Return(SimilarityResult(FALSE, "Go for it!"))

checkSimilarity(wishlistImageBase64, w, outcome) ==
    IF Len(w) = 0 THEN Return(SimilarityResult(FALSE, "Your wardrobe is empty!"))
    ELSE LET r == checkSimilarity_try(outcome)
         IN  IF r.ok THEN r
             ELSE Return(SimilarityResult(FALSE,
                      "Couldn't check for duplicates, but trust your gut!"))

-----------------------------------------------------------------------------
(* Inputs: the responses the external model may give, the files the user   *)
(* may pick, the texts the user may type.                                  *)

Images == {"data:image/jpeg;base64,A", "data:image/jpeg;base64,B"}

ClassifyObj(category, color, season, description) ==
    Obj(<<"category", "color", "season", "description">>,
        [category |-> category, color |-> color, season |-> season,
         description |-> description])

\* classification responses: failures, values that are no object, complete
\* objects, objects with fields missing or empty, a category outside the enum
ClassifyJson ==
    { JNull, JNum(5),
      ClassifyObj("Top", "Red", "Summer", "Cute tee"),
      ClassifyObj("Bottom", "Dark Red", "All", "Wide jeans"),
      ClassifyObj("Hat", "red velvet", "Winter", "Beanie"),
      Obj(<<"color", "description">>, [color |-> "", description |-> ""]),
      Obj(<<"category", "season">>, [category |-> "Shoes", season |-> ""]) }
ClassifyFailures == {Rejected, EmptyText, NotJson}
ClassifyPool == ClassifyFailures \cup {Json(v) : v \in ClassifyJson}

OutfitJson ==
    { JNull, JNum(5),
      Obj(<<"itemIds", "explanation", "vibe">>,
          [itemIds |-> <<"10", "99">>, explanation |-> "Layered look", vibe |-> "Cozy"]),
      Obj(<<"itemIds", "explanation", "vibe">>,
          [itemIds |-> <<"11", "10">>, explanation |-> "Layered look", vibe |-> ""]),
      Obj(<<"explanation", "vibe">>, [explanation |-> "Layered look", vibe |-> "Cozy"]),
      Obj(<<"itemIds">>, [itemIds |-> <<"10">>]) }
OutfitPool == {Rejected, EmptyText, NotJson} \cup {Json(v) : v \in OutfitJson}

Weekdays == <<"Monday", "Tuesday", "Wednesday", "Thursday", "Friday">>
SeqRange(q) == {q[i] : i \in 1..Len(q)}
DayOutfit(ids) ==
    Obj(<<"itemIds", "explanation">>, [itemIds |-> ids, explanation |-> "Day look"])
\* a plan whose keys come in the given order
PlanOf(order, ids) == Obj(order, [d \in SeqRange(order) |-> DayOutfit(ids)])
WeeklyJson ==
    { JNull, JNum(5),
      PlanOf(Weekdays, <<"10">>),
      PlanOf(<<"Friday", "Monday", "Thursday", "Tuesday", "Wednesday">>, <<"10", "11">>),
      PlanOf(<<"Monday", "Wednesday", "Friday">>, <<"10">>),
      PlanOf(Weekdays \o <<"Saturday">>, <<"11">>),
      Obj(<<"Monday">>, [Monday |-> Obj(<<"explanation">>, [explanation |-> "Day look"])]) }
WeeklyPool == {Rejected, EmptyText, NotJson} \cup {Json(v) : v \in WeeklyJson}

SimilarityJson ==
    { JNull,
      SimilarityResult(TRUE, "You own a red tee already"),
      SimilarityResult(FALSE, "Nothing like it in your closet"),
      Obj(<<"explanation">>, [explanation |-> "Looks new"]),
      Obj(<<"isSimilar">>, [isSimilar |-> TRUE]) }
SimilarityPool == {Rejected, EmptyText, NotJson} \cup {Json(v) : v \in SimilarityJson}

Vibes == {"Dinner Date", "Busy Week"}

ClothingItem(id, imageUrl, category, color, season, description) ==
    [id |-> id, imageUrl |-> imageUrl, category |-> category, color |-> color,
     season |-> season, description |-> description]

-----------------------------------------------------------------------------
(* The state after construction: App not yet past its first effect, no     *)
(* view but the dashboard mounted.                                         *)

AppView == {"DASHBOARD", "WARDROBE", "STYLIST", "WISHLIST"}

InitialEvents ==
    << [id |-> "1", title |-> "Coffee Date", time |-> "10:00", icon |-> "coffee"],
       [id |-> "2", title |-> "Work", time |-> "14:00", icon |-> "laptop"] >>

WardrobeInitial ==
    /\ Wardrobe_isAnalyzing = FALSE
    /\ activeCategory = "All"
    /\ activeColor = null
    /\ Wardrobe_itemToDelete = null
    /\ Wardrobe_uploads = EmptyBag

WishlistInitial ==
    /\ name = ""
    /\ price = ""
    /\ brand = ""
    /\ previewImage = null
    /\ Wishlist_isAnalyzing = FALSE
    /\ analysisResult = JNull
    /\ Wishlist_itemToDelete = null
    /\ Wishlist_uploads = EmptyBag

StylistInitial ==
    /\ vibeInput = ""
    /\ mode = "SINGLE"
    /\ generatedOutfit = JNull
    /\ weeklyPlan = JNull
    /\ isLoading = FALSE
    /\ Stylist_requests = EmptyBag

Init ==
    /\ currentView = "DASHBOARD"
    /\ wardrobe = <<>>
    /\ wishlist = <<>>
    /\ events = InitialEvents
    /\ isEventModalOpen = FALSE
    /\ newEvent = [title |-> "", time |-> "", icon |-> ""]
    /\ eventToDelete = null
    /\ weather = JNull
    /\ weatherLoading = TRUE
    /\ weatherError = null
    /\ geo = "mounting"
    /\ weatherRequests = 0
    /\ now = 10
    /\ lastAlert = null
    /\ WardrobeInitial
    /\ WishlistInitial
    /\ StylistInitial
    /\ call = [op |-> "none"]

\* the clock read by Date.now() advances
Tick ==
    /\ now < 10 + MaxTicks
    /\ now' = now + 1
    /\ UNCHANGED <<currentView, wardrobe, wishlist, events, isEventModalOpen,
                   newEvent, eventToDelete, lastAlert>>
    /\ UNCHANGED <<weatherVars, wardrobeVars, wishlistVars, stylistVars, call>>

-----------------------------------------------------------------------------
(* The adapter's operations called on their own, for every outcome of the  *)
(* external call.                                                          *)

WardrobeSamples ==
    { <<>>,
      <<ClothingItem("10", "data:image/jpeg;base64,A", "Top", "Red", "Summer", "Cute tee")>> }

Adapter_analyzeClothingItem ==
    /\ \E image \in Images, outcome \in ClassifyPool :
          call' = [op |-> "analyzeClothingItem", w |-> <<>>, text |-> image,
                   outcome |-> outcome, result |-> analyzeClothingItem(outcome)]
    /\ UNCHANGED <<appVars, weatherVars, wardrobeVars, wishlistVars, stylistVars>>

Adapter_generateOutfit ==
    /\ \E w \in WardrobeSamples, vibe \in Vibes, outcome \in OutfitPool :
          call' = [op |-> "generateOutfit", w |-> w, text |-> vibe, outcome |-> outcome,
                   result |-> generateOutfit(w, "Temperature is 20C, clear skies.",
                                             vibe, outcome)]
    /\ UNCHANGED <<appVars, weatherVars, wardrobeVars, wishlistVars, stylistVars>>

Adapter_generateOutfitFromImage ==
    /\ \E w \in WardrobeSamples, image \in Images, outcome \in OutfitPool :
          call' = [op |-> "generateOutfitFromImage", w |-> w, text |-> image,
                   outcome |-> outcome,
                   result |-> generateOutfitFromImage(w, image, outcome)]
    /\ UNCHANGED <<appVars, weatherVars, wardrobeVars, wishlistVars, stylistVars>>

Adapter_generateWeeklyPlan ==
    /\ \E w \in WardrobeSamples, theme \in Vibes, outcome \in WeeklyPool :
          call' = [op |-> "generateWeeklyPlan", w |-> w, text |-> theme,
                   outcome |-> outcome,
                   result |-> generateWeeklyPlan(w, "Temperature is 20C, clear skies.",
                                                 theme, outcome)]
    /\ UNCHANGED <<appVars, weatherVars, wardrobeVars, wishlistVars, stylistVars>>

Adapter_checkSimilarity ==
    /\ \E w \in WardrobeSamples, image \in Images, outcome \in SimilarityPool :
          call' = [op |-> "checkSimilarity", w |-> w, text |-> image, outcome |-> outcome,
                   result |-> checkSimilarity(image, w, outcome)]
    /\ UNCHANGED <<appVars, weatherVars, wardrobeVars, wishlistVars, stylistVars>>

NextAdapter ==
    \/ Tick
    \/ Adapter_analyzeClothingItem
    \/ Adapter_generateOutfit
    \/ Adapter_generateOutfitFromImage
    \/ Adapter_generateWeeklyPlan
    \/ Adapter_checkSimilarity

SpecAdapter == Init /\ [][NextAdapter]_vars

-----------------------------------------------------------------------------
(* Claims about the adapter (checked under SpecAdapter) *)

AdapterOps == {"analyzeClothingItem", "generateOutfit", "generateOutfitFromImage",
               "generateWeeklyPlan", "checkSimilarity"}

\* C7: every adapter operation completes with a value for every outcome of
\* the external call (rejected request, empty text, text that is not JSON,
\* valid JSON): its promise never rejects, so no exception reaches the view.
C7_AdapterAlwaysReturns ==
    call.op \in AdapterOps => call.result.ok

\* C7 witness: an operation that did issue the call and met a failure (a
\* rejected request, text that is not JSON, or JSON null whose property is
\* read) has completed with a value.
C7_Witness ==
    /\ call.op \in {"generateOutfit", "generateOutfitFromImage"}
    /\ Len(call.w) > 0
    /\ call.outcome = Json(JNull)
    /\ call.result.ok

\* the fields the schema sent with each request declares
DeclaredFields(op) ==
    CASE op = "analyzeClothingItem" -> {"category", "color", "season", "description"}
      [] op \in {"generateOutfit", "generateOutfitFromImage"} ->
             {"itemIds", "explanation", "vibe"}
      [] op = "checkSimilarity" -> {"isSimilar", "explanation"}
      [] OTHER -> {}

\* the response parsed as a JSON object but lacks a declared field (for a
\* weekly plan: one of its days lacks itemIds or explanation)
LacksDeclaredField(op, outcome) ==
    /\ outcome.kind = "text"
    /\ outcome.valid
    /\ outcome.value.type = "object"
    /\ IF op = "generateWeeklyPlan"
       THEN \E d \in DOMAIN outcome.value.val :
               \E k \in {"itemIds", "explanation"} : ~HasProp(outcome.value.val[d], k)
       ELSE \E k \in DeclaredFields(op) : ~HasProp(outcome.value, k)

\* the values each operation hard-codes as its fallback
HardCodedDefaults(op) ==
    CASE op = "analyzeClothingItem" -> {AnalyzeDefault}
      [] op = "checkSimilarity" ->
             { SimilarityResult(FALSE, "Go for it!"),
               SimilarityResult(FALSE, "Couldn't check for duplicates, but trust your gut!") }
      [] OTHER -> {JNull}

\* C8 (as claimed): when the response parses as JSON but lacks a field of
\* the declared shape, the operation returns its hard-coded default, not an
\* object in which the field is absent.
C8_MissingFieldYieldsDefault ==
    ( /\ call.op \in AdapterOps
      /\ (call.op = "analyzeClothingItem" \/ Len(call.w) > 0)
      /\ LacksDeclaredField(call.op, call.outcome) )
    => /\ call.result.ok
       /\ call.result.v \in HardCodedDefaults(call.op)

-----------------------------------------------------------------------------
(* App: the weather effect, and the weather card (WeatherWidget) *)

\* what api.open-meteo.com may answer: the fetch fails, the body is not
\* JSON, or it is JSON of a value
WeatherCodes == {0, 1, 2, 3, 4, 45, 59, 60, 61, 62, 80, 95}
Temperatures == {5, 15, 22, 30}
CurrentWeather(temperature, weathercode, is_day) ==
    Obj(<<"current_weather">>,
        [current_weather |->
            Obj(<<"temperature", "weathercode", "is_day">>,
                [temperature |-> temperature, weathercode |-> weathercode,
                 is_day |-> is_day])])
WeatherJson ==
    { JNull, Obj(<<"error">>, [error |-> "true"]) }
      \cup { CurrentWeather(t, c, d) : t \in Temperatures, c \in WeatherCodes, d \in {0, 1} }
WeatherPool == {Rejected, NotJson} \cup {Json(v) : v \in WeatherJson}

fetchWeather_try_swallows(outcome) ==
    IF outcome.kind = "rejected" THEN Throw
    ELSE Return([temperature |-> 0, weatherCode |-> 0, isDay |-> TRUE])

\* the try block of the position callback: fetch, response.json(), and the
\* reads of data.current_weather.*
fetchWeather_try(outcome) ==
    IF outcome.kind = "rejected" THEN Throw
    ELSE LET data == JSONparse(outcome)
         IN  IF ~data.ok THEN Throw
             ELSE IF ~CanRead(data.v) THEN Throw
             ELSE IF ~HasProp(data.v, "current_weather") THEN Throw
             ELSE LET cw == data.v.val.current_weather
                  IN  Return([temperature |-> cw.val.temperature,
                              weatherCode |-> cw.val.weathercode,
                              isDay |-> (cw.val.is_day = 1)])

\* useEffect(..., []): runs once after the first render
App_useEffect ==
    /\ geo = "mounting"
    /\ \E supported \in BOOLEAN :
          IF ~supported
          THEN /\ weatherError' = "Geolocation not supported"
               /\ weatherLoading' = FALSE
               /\ geo' = "done"
          ELSE /\ geo' = "locating"
               /\ UNCHANGED <<weatherError, weatherLoading>>
    /\ UNCHANGED <<weather, weatherRequests, appVars, wardrobeVars, wishlistVars, stylistVars, call>>

getCurrentPosition_error_keepsLoading ==
    /\ geo = "locating"
    /\ weatherError' = "Location access denied"
    /\ geo' = "done"
    /\ UNCHANGED <<weather, weatherLoading, weatherRequests, appVars, wardrobeVars,
                   wishlistVars, stylistVars, call>>

\* getCurrentPosition's error callback
getCurrentPosition_error ==
    /\ geo = "locating"
    /\ weatherError' = "Location access denied"
    /\ weatherLoading' = FALSE
    /\ geo' = "done"
    /\ UNCHANGED <<weather, weatherRequests, appVars, wardrobeVars, wishlistVars, stylistVars, call>>

\* getCurrentPosition's success callback, up to its first await: the fetch
\* is issued
getCurrentPosition_success ==
    /\ geo = "locating"
    /\ geo' = "fetching"
    /\ weatherRequests' = weatherRequests + 1
    /\ UNCHANGED <<weather, weatherLoading, weatherError>>
    /\ UNCHANGED <<appVars, wardrobeVars, wishlistVars, stylistVars, call>>

\* the rest of the success callback, once the fetch has settled
fetchWeather_settled(outcomes) ==
    /\ geo = "fetching"
    /\ \E outcome \in outcomes :
          LET r == fetchWeather_try(outcome)
          IN  /\ IF r.ok
                 THEN weather' = r.v /\ UNCHANGED weatherError
                 ELSE weatherError' = "Could not fetch weather" /\ UNCHANGED weather
              /\ weatherLoading' = FALSE
    /\ geo' = "done"
    /\ UNCHANGED <<weatherRequests, appVars, wardrobeVars, wishlistVars, stylistVars, call>>

WeatherIcon_nightIgnored(w) ==
    IF w.weatherCode <= 3 THEN "sun"
    ELSE IF w.weatherCode <= 60 THEN "cloud" ELSE "rain"

\* the icon of the weather card
WeatherIcon(w) ==
    IF w.weatherCode <= 3 THEN (IF w.isDay THEN "sun" ELSE "moon")
    ELSE IF w.weatherCode <= 60 THEN "cloud" ELSE "rain"

\* what WeatherWidget renders from its props
WeatherWidget ==
    IF weatherLoading THEN [shows |-> "skeleton"]
    ELSE IF Truthy(weatherError) \/ weather = JNull THEN [shows |-> "fallback greeting"]
    ELSE [shows |-> "card", icon |-> WeatherIcon(weather)]

\* Navigation, and the two dashboard buttons: setCurrentView(view).  A view
\* that is left is unmounted: its state is lost (the next mount starts from
\* the initial values) and the requests it has outstanding are orphaned.
Orphaned(uploads) ==
    LET stale(u) == [u EXCEPT !.mounted = FALSE]
        olds == {stale(u) : u \in BagToSet(uploads)}
    IN  [o \in olds |->
            (IF BagIn(o, uploads) THEN CopiesIn(o, uploads) ELSE 0)
            + (IF BagIn([o EXCEPT !.mounted = TRUE], uploads)
               THEN CopiesIn([o EXCEPT !.mounted = TRUE], uploads) ELSE 0)]

setCurrentView_emptiesWardrobe(view) ==
    /\ currentView' = view
    /\ wardrobe' = <<>>
    /\ UNCHANGED <<wishlist, events, isEventModalOpen, newEvent, eventToDelete, now,
                   lastAlert, weatherVars, wardrobeVars, wishlistVars, stylistVars, call>>

setCurrentView(view) ==
    /\ currentView' = view
    /\ IF currentView = "WARDROBE" /\ view # "WARDROBE"
       THEN /\ Wardrobe_isAnalyzing' = FALSE
            /\ activeCategory' = "All"
            /\ activeColor' = null
            /\ Wardrobe_itemToDelete' = null
            /\ Wardrobe_uploads' = Orphaned(Wardrobe_uploads)
       ELSE UNCHANGED wardrobeVars
    /\ IF currentView = "WISHLIST" /\ view # "WISHLIST"
       THEN /\ name' = ""
            /\ price' = ""
            /\ brand' = ""
            /\ previewImage' = null
            /\ Wishlist_isAnalyzing' = FALSE
            /\ analysisResult' = JNull
            /\ Wishlist_itemToDelete' = null
            /\ Wishlist_uploads' = Orphaned(Wishlist_uploads)
       ELSE UNCHANGED wishlistVars
    /\ IF currentView = "STYLIST" /\ view # "STYLIST"
       THEN /\ vibeInput' = ""
            /\ mode' = "SINGLE"
            /\ generatedOutfit' = JNull
            /\ weeklyPlan' = JNull
            /\ isLoading' = FALSE
            /\ Stylist_requests' = Orphaned(Stylist_requests)
       ELSE UNCHANGED stylistVars
    /\ UNCHANGED <<wardrobe, wishlist, events, isEventModalOpen, newEvent,
                   eventToDelete, now, lastAlert, weatherVars, call>>

Navigate == \E view \in AppView : setCurrentView(view)

NextWeather ==
    \/ App_useEffect
    \/ getCurrentPosition_error
    \/ getCurrentPosition_success
    \/ fetchWeather_settled(WeatherPool)
    \/ Navigate

SpecWeather == Init /\ [][NextWeather]_vars

\* C5: for every weather snapshot, a code <= 3 shows the sun by day and the
\* moon by night, a code > 60 shows rain whatever isDay is, and a code in
\* 4..60 shows the cloud whatever isDay is.
C5_IconFollowsCode ==
    WeatherWidget.shows = "card" =>
        /\ (weather.weatherCode <= 3 /\ weather.isDay) => WeatherWidget.icon = "sun"
        /\ (weather.weatherCode <= 3 /\ ~weather.isDay) => WeatherWidget.icon = "moon"
        /\ weather.weatherCode > 60 => WeatherWidget.icon = "rain"
        /\ weather.weatherCode \in 4..60 => WeatherWidget.icon = "cloud"

\* C5 witness: a clear night is on the card
C5_Witness ==
    /\ WeatherWidget.shows = "card"
    /\ weather.weatherCode <= 3
    /\ ~weather.isDay
    /\ WeatherWidget.icon = "moon"

-----------------------------------------------------------------------------
(* String operations of the Wardrobe view *)

UpperCase == "ABCDEFGHIJKLMNOPQRSTUVWXYZ"
LowerCase == "abcdefghijklmnopqrstuvwxyz"

CharAt(str, i) == SubSeq(str, i, i)

\* one character in lower case
LowerChar(c) ==
    IF \E i \in 1..Len(UpperCase) : CharAt(UpperCase, i) = c
    THEN CharAt(LowerCase, CHOOSE i \in 1..Len(UpperCase) : CharAt(UpperCase, i) = c)
    ELSE c

\* String.prototype.toLowerCase
RECURSIVE toLowerCase(_)
toLowerCase(str) ==
    IF Len(str) = 0 THEN ""
    ELSE LowerChar(CharAt(str, 1)) \o toLowerCase(SubSeq(str, 2, Len(str)))

\* String.prototype.includes
includes(str, search) ==
    \E i \in 1..(Len(str) + 1) :
        /\ i + Len(search) - 1 <= Len(str)
        /\ SubSeq(str, i, i + Len(search) - 1) = search

\* str.split(' ')[0]: the text before the first space
FirstWord(str) ==
    IF \E i \in 1..Len(str) : CharAt(str, i) = " "
    THEN SubSeq(str, 1, (CHOOSE i \in 1..Len(str) :
                            /\ CharAt(str, i) = " "
                            /\ \A j \in 1..(i - 1) : CharAt(str, j) # " ") - 1)
    ELSE str

\* Array.from(new Set(q)): the first occurrence of each element, in order
RECURSIVE Distinct(_)
Distinct(q) ==
    IF Len(q) = 0 THEN <<>>
    ELSE LET front == Distinct(SubSeq(q, 1, Len(q) - 1))
             last == q[Len(q)]
         IN  IF \E i \in 1..Len(front) : front[i] = last THEN front
             ELSE Append(front, last)

-----------------------------------------------------------------------------
(* App: the wardrobe mutators.  Wardrobe view: upload, delete, filters. *)

addWardrobeItem_appends(prev, item) == Append(prev, item)

\* setWardrobe(prev => [item, ...prev])
addWardrobeItem(prev, item) == <<item>> \o prev

deleteWardrobeItem_firstOnlyKept(prev, id) ==
    IF Len(prev) = 0 THEN prev ELSE SelectSeq(Tail(prev), LAMBDA item : item.id # id)

\* setWardrobe(prev => prev.filter(item => item.id !== id))
deleteWardrobeItem(prev, id) == SelectSeq(prev, LAMBDA item : item.id # id)

CATEGORIES == <<"Top", "Bottom", "One-Piece", "Outerwear", "Shoes", "Accessory">>

ItemWith_seasonUnknown(id, base64String, metadata) ==
    ClothingItem(id, base64String,
                 StrOr(metadata, "category", "Other"),
                 StrOr(metadata, "color", "Unknown"),
                 StrOr(metadata, "season", "Unknown"),
                 StrOr(metadata, "description", "Added from closet"))

\* the item handleFileUpload builds from the classification result
ItemWith(id, base64String, metadata) ==
    ClothingItem(id, base64String,
                 StrOr(metadata, "category", "Other"),
                 StrOr(metadata, "color", "Unknown"),
                 StrOr(metadata, "season", "All"),
                 StrOr(metadata, "description", "Added from closet"))
NewClothingItem(base64String, metadata) == ItemWith(DateNowToString, base64String, metadata)

\* an upload in progress: the file being read ("reading"), then the
\* classification request outstanding ("calling"); mounted tells whether the
\* Wardrobe instance that started it is still the one on screen
Upload(image, phase) == [image |-> image, phase |-> phase, mounted |-> TRUE]

\* The model stops creating elements and starting uploads once the
\* collections and the outstanding uploads together count MaxItems more than
\* the schedule starts with.
Room ==
    Len(wardrobe) + BagCardinality(Wardrobe_uploads)
        + Len(wishlist) + BagCardinality(Wishlist_uploads) + Len(events)
        < MaxItems + Len(InitialEvents)

\* handleFileUpload, up to reader.readAsDataURL(file)
Wardrobe_handleFileUpload(files) ==
    /\ currentView = "WARDROBE"
    /\ ~Wardrobe_isAnalyzing  \* the Add Item button is disabled while analyzing
    /\ Room
    /\ \E file \in files :
          Wardrobe_uploads' = Wardrobe_uploads (+) SetToBag({Upload(file, "reading")})
    /\ Wardrobe_isAnalyzing' = TRUE
    /\ UNCHANGED <<activeCategory, activeColor, Wardrobe_itemToDelete>>
    /\ UNCHANGED <<appVars, weatherVars, wishlistVars, stylistVars, call>>

\* reader.onloadend, up to the await: analyzeClothingItem issues the request
Wardrobe_onloadend ==
    /\ \E u \in BagToSet(Wardrobe_uploads) :
          /\ u.phase = "reading"
          /\ Wardrobe_uploads' = (Wardrobe_uploads (-) SetToBag({u}))
                                    (+) SetToBag({[u EXCEPT !.phase = "calling"]})
    /\ UNCHANGED <<Wardrobe_isAnalyzing, activeCategory, activeColor, Wardrobe_itemToDelete>>
    /\ UNCHANGED <<appVars, weatherVars, wishlistVars, stylistVars, call>>

\* reader.onloadend after the await: the item is built and added (a
\* TypeError on reading a field of a null result is caught and alerted), and
\* the finally block clears isAnalyzing of the instance that started it
Wardrobe_analyzedOne(u, outcome) ==
    /\ BagIn(u, Wardrobe_uploads)
    /\ u.phase = "calling"
    /\ LET metadata == analyzeClothingItem(outcome)
       IN  IF metadata.ok /\ CanRead(metadata.v)
           THEN /\ wardrobe' = addWardrobeItem(wardrobe,
                                   NewClothingItem(u.image, metadata.v))
                /\ UNCHANGED lastAlert
           ELSE /\ lastAlert' = "Oops! Couldn't scan that item."
                /\ UNCHANGED wardrobe
    /\ Wardrobe_uploads' = Wardrobe_uploads (-) SetToBag({u})
    /\ IF u.mounted THEN Wardrobe_isAnalyzing' = FALSE
       ELSE UNCHANGED Wardrobe_isAnalyzing
    /\ UNCHANGED <<activeCategory, activeColor, Wardrobe_itemToDelete>>
    /\ UNCHANGED <<currentView, wishlist, events, isEventModalOpen, newEvent,
                   eventToDelete, now>>
    /\ UNCHANGED <<weatherVars, wishlistVars, stylistVars, call>>

Wardrobe_analyzed(responses) ==
    \E u \in BagToSet(Wardrobe_uploads), outcome \in responses :
        Wardrobe_analyzedOne(u, outcome)

\* the color facets: the distinct first words of the colors, at most eight
colors ==
    LET words == Distinct([i \in 1..Len(wardrobe) |-> FirstWord(wardrobe[i].color)])
    IN  SubSeq(words, 1, IF Len(words) < 8 THEN Len(words) ELSE 8)

matchCat(item, category) == category = "All" \/ item.category = category
matchColor_caseSensitive(item, color) == ~Truthy(color) \/ includes(item.color, color)

matchColor(item, color) ==
    ~Truthy(color) \/ includes(toLowerCase(item.color), toLowerCase(color))

FilterItems_either(items, category, color) ==
    SelectSeq(items, LAMBDA item : matchCat(item, category) \/ matchColor(item, color))

\* items.filter(item => matchCat && matchColor)
FilterItems(items, category, color) ==
    SelectSeq(items, LAMBDA item : matchCat(item, category) /\ matchColor(item, color))

filteredItems == FilterItems(wardrobe, activeCategory, activeColor)

\* a category chip is clicked
Wardrobe_setActiveCategory ==
    /\ currentView = "WARDROBE"
    /\ \E cat \in {"All"} \cup SeqRange(CATEGORIES) : activeCategory' = cat
    /\ UNCHANGED <<Wardrobe_isAnalyzing, activeColor, Wardrobe_itemToDelete, Wardrobe_uploads>>
    /\ UNCHANGED <<appVars, weatherVars, wishlistVars, stylistVars, call>>

\* a color dot (or the dot that clears the color filter) is clicked
Wardrobe_setActiveColor ==
    /\ currentView = "WARDROBE"
    /\ Len(colors) > 0
    /\ \E color \in {null} \cup SeqRange(colors) : activeColor' = color
    /\ UNCHANGED <<Wardrobe_isAnalyzing, activeCategory, Wardrobe_itemToDelete, Wardrobe_uploads>>
    /\ UNCHANGED <<appVars, weatherVars, wishlistVars, stylistVars, call>>

\* the bin on a card of the grid is clicked
Wardrobe_setItemToDelete ==
    /\ currentView = "WARDROBE"
    /\ \E i \in 1..Len(filteredItems) : Wardrobe_itemToDelete' = filteredItems[i].id
    /\ UNCHANGED <<Wardrobe_isAnalyzing, activeCategory, activeColor, Wardrobe_uploads>>
    /\ UNCHANGED <<appVars, weatherVars, wishlistVars, stylistVars, call>>

Wardrobe_confirmDelete_emptiesWishlist ==
    /\ currentView = "WARDROBE"
    /\ Truthy(Wardrobe_itemToDelete)
    /\ wardrobe' = deleteWardrobeItem(wardrobe, Wardrobe_itemToDelete)
    /\ wishlist' = <<>>
    /\ Wardrobe_itemToDelete' = null
    /\ UNCHANGED <<Wardrobe_isAnalyzing, activeCategory, activeColor, Wardrobe_uploads>>
    /\ UNCHANGED <<currentView, events, isEventModalOpen, newEvent,
                   eventToDelete, now, lastAlert>>
    /\ UNCHANGED <<weatherVars, wishlistVars, stylistVars, call>>

\* Delete in the modal
Wardrobe_confirmDelete ==
    /\ currentView = "WARDROBE"
    /\ Truthy(Wardrobe_itemToDelete)
    /\ wardrobe' = deleteWardrobeItem(wardrobe, Wardrobe_itemToDelete)
    /\ Wardrobe_itemToDelete' = null
    /\ UNCHANGED <<Wardrobe_isAnalyzing, activeCategory, activeColor, Wardrobe_uploads>>
    /\ UNCHANGED <<currentView, wishlist, events, isEventModalOpen, newEvent,
                   eventToDelete, now, lastAlert>>
    /\ UNCHANGED <<weatherVars, wishlistVars, stylistVars, call>>

\* Cancel in the modal
Wardrobe_cancelDelete ==
    /\ currentView = "WARDROBE"
    /\ Truthy(Wardrobe_itemToDelete)
    /\ Wardrobe_itemToDelete' = null
    /\ UNCHANGED <<Wardrobe_isAnalyzing, activeCategory, activeColor, Wardrobe_uploads>>
    /\ UNCHANGED <<appVars, weatherVars, wishlistVars, stylistVars, call>>

\* the file the user picks in a file dialog
Files == {"data:image/jpeg;base64,A"}

\* The Wardrobe view with its uploads and deletions (the filters stay as
\* mounted: every item is on the grid).
NextWardrobe ==
    \/ Tick
    \/ (\E view \in {"DASHBOARD", "WARDROBE"} : setCurrentView(view))
    \/ Wardrobe_handleFileUpload(Files)
    \/ Wardrobe_onloadend
    \/ Wardrobe_analyzed(ClassifyPool)
    \/ Wardrobe_setItemToDelete
    \/ Wardrobe_confirmDelete
    \/ Wardrobe_cancelDelete

SpecWardrobe == Init /\ [][NextWardrobe]_vars

-----------------------------------------------------------------------------
(* App: the wishlist mutators.  Wishlist view: upload with the two parallel *)
(* calls, the form, delete.                                                 *)

addToWishlist_replaces(prev, item) == <<item>>

\* setWishlist(prev => [item, ...prev])
addToWishlist(prev, item) == <<item>> \o prev

\* setWishlist(prev => prev.filter(item => item.id !== id))
deleteWishlistItem(prev, id) == SelectSeq(prev, LAMBDA item : item.id # id)

\* the leading decimal digits of a string
RECURSIVE LeadingDigits(_)
LeadingDigits(str) ==
    IF Len(str) > 0 /\ includes("0123456789", CharAt(str, 1))
    THEN CharAt(str, 1) \o LeadingDigits(SubSeq(str, 2, Len(str)))
    ELSE ""

\* parseFloat(price) || 0, for the whole numbers the model types: NaN (no
\* leading digit) and 0 both give 0
parseFloatOrZero(str) ==
    IF Len(LeadingDigits(str)) = 0 THEN 0 ELSE NumberOf(LeadingDigits(str))

\* `${name} ${brand ? `(${brand})` : ''}`
ItemName(n, b) == n \o " " \o (IF b # "" THEN "(" \o b \o ")" ELSE "")

Pending == [pending |-> TRUE]

\* an upload of the Wishlist view: w is the wardrobe prop its handler closed
\* over, metadata and similarity are the two promises given to Promise.all
WishUpload(image, w) ==
    [image |-> image, phase |-> "reading", mounted |-> TRUE, w |-> w,
     metadata |-> Pending, similarity |-> Pending]

\* handleFileSelect, up to reader.readAsDataURL(file); the upload area is
\* rendered (and stays clickable while analyzing) as long as no preview is
Wishlist_handleFileSelect(files) ==
    /\ currentView = "WISHLIST"
    /\ ~Truthy(previewImage)
    /\ Room
    /\ \E file \in files :
          Wishlist_uploads' = Wishlist_uploads (+) SetToBag({WishUpload(file, wardrobe)})
    /\ Wishlist_isAnalyzing' = TRUE
    /\ analysisResult' = JNull
    /\ name' = ""
    /\ UNCHANGED <<price, brand, previewImage, Wishlist_itemToDelete>>
    /\ UNCHANGED <<appVars, weatherVars, wardrobeVars, stylistVars, call>>

\* reader.onloadend, up to the await: the preview is set and both calls are
\* started (checkSimilarity resolves at once for an empty wardrobe)
Wishlist_onloadend ==
    /\ \E u \in BagToSet(Wishlist_uploads) :
          /\ u.phase = "reading"
          /\ Wishlist_uploads' =
                (Wishlist_uploads (-) SetToBag({u}))
                (+) SetToBag({[u EXCEPT !.phase = "calling",
                                        !.similarity =
                                            IF Len(u.w) = 0
                                            THEN checkSimilarity(u.image, u.w, Rejected)
                                            ELSE Pending]})
          /\ IF u.mounted THEN previewImage' = u.image ELSE UNCHANGED previewImage
    /\ UNCHANGED <<name, price, brand, Wishlist_isAnalyzing, analysisResult,
                   Wishlist_itemToDelete>>
    /\ UNCHANGED <<appVars, weatherVars, wardrobeVars, stylistVars, call>>

\* the name handleFileSelect fills in
AutoName(metadata) ==
    IF /\ HasProp(metadata, "color") /\ metadata.val.color # ""
       /\ HasProp(metadata, "category") /\ metadata.val.category # ""
    THEN metadata.val.color \o " " \o metadata.val.category
    ELSE StrOr(metadata, "description", "New Item")

\* { isSimilar: similarityCheck.isSimilar, message: similarityCheck.explanation }
AnalysisOf(similarityCheck) ==
    Obj(KeysIn(similarityCheck, <<"isSimilar">>)
            \o (IF HasProp(similarityCheck, "explanation") THEN <<"message">> ELSE <<>>),
        PickProps(similarityCheck, {"isSimilar"})
            @@ (IF HasProp(similarityCheck, "explanation")
                THEN [message |-> similarityCheck.val.explanation]
                ELSE PickProps(similarityCheck, {})))

Wishlist_joined_noFinally(u) ==
    LET bothOk == u.metadata.ok /\ u.similarity.ok
        named == bothOk /\ CanRead(u.metadata.v)
        judged == named /\ CanRead(u.similarity.v)
    IN  IF ~u.mounted
        THEN UNCHANGED <<name, analysisResult, Wishlist_isAnalyzing>>
        ELSE /\ IF named THEN name' = AutoName(u.metadata.v) ELSE UNCHANGED name
             /\ IF judged THEN analysisResult' = AnalysisOf(u.similarity.v)
                ELSE UNCHANGED analysisResult
             /\ IF judged THEN Wishlist_isAnalyzing' = FALSE
                ELSE UNCHANGED Wishlist_isAnalyzing

\* reader.onloadend after Promise.all has settled, for an upload u whose two
\* promises are settled: the try block runs until a statement throws (a
\* rejected promise, a field read of null), the catch logs, and the finally
\* block clears isAnalyzing.  An unmounted instance ignores the updates.
Wishlist_joined(u) ==
    LET bothOk == u.metadata.ok /\ u.similarity.ok
        named == bothOk /\ CanRead(u.metadata.v)
        judged == named /\ CanRead(u.similarity.v)
    IN  IF ~u.mounted
        THEN UNCHANGED <<name, analysisResult, Wishlist_isAnalyzing>>
        ELSE /\ IF named THEN name' = AutoName(u.metadata.v) ELSE UNCHANGED name
             /\ IF judged THEN analysisResult' = AnalysisOf(u.similarity.v)
                ELSE UNCHANGED analysisResult
             /\ Wishlist_isAnalyzing' = FALSE

\* one of the two calls of upload u settles as `settled`; when it is the
\* second, the continuation of Promise.all runs in the same step
Wishlist_settle(u, settled) ==
    /\ IF settled.metadata # Pending /\ settled.similarity # Pending
       THEN /\ Wishlist_joined(settled)
            /\ Wishlist_uploads' = Wishlist_uploads (-) SetToBag({u})
       ELSE /\ Wishlist_uploads' = (Wishlist_uploads (-) SetToBag({u}))
                                      (+) SetToBag({settled})
            /\ UNCHANGED <<name, analysisResult, Wishlist_isAnalyzing>>
    /\ UNCHANGED <<price, brand, previewImage, Wishlist_itemToDelete>>
    /\ UNCHANGED <<appVars, weatherVars, wardrobeVars, stylistVars, call>>

\* analyzeClothingItem(base64String) settles
Wishlist_analyzed(responses) ==
    \E u \in BagToSet(Wishlist_uploads), outcome \in responses :
        /\ u.phase = "calling"
        /\ u.metadata = Pending
        /\ Wishlist_settle(u, [u EXCEPT !.metadata = analyzeClothingItem(outcome)])

\* checkSimilarity(base64String, wardrobe) settles
Wishlist_similarityChecked(responses) ==
    \E u \in BagToSet(Wishlist_uploads), outcome \in responses :
        /\ u.phase = "calling"
        /\ u.similarity = Pending
        /\ Wishlist_settle(u, [u EXCEPT !.similarity = checkSimilarity(u.image, u.w, outcome)])

\* typing in the three inputs of the form
Wishlist_setName(texts) ==
    /\ currentView = "WISHLIST"
    /\ \E text \in texts : name' = text
    /\ UNCHANGED <<price, brand, previewImage, Wishlist_isAnalyzing, analysisResult,
                   Wishlist_itemToDelete, Wishlist_uploads>>
    /\ UNCHANGED <<appVars, weatherVars, wardrobeVars, stylistVars, call>>

Wishlist_setPrice(texts) ==
    /\ currentView = "WISHLIST"
    /\ \E text \in texts : price' = text
    /\ UNCHANGED <<name, brand, previewImage, Wishlist_isAnalyzing, analysisResult,
                   Wishlist_itemToDelete, Wishlist_uploads>>
    /\ UNCHANGED <<appVars, weatherVars, wardrobeVars, stylistVars, call>>

Wishlist_setBrand(texts) ==
    /\ currentView = "WISHLIST"
    /\ \E text \in texts : brand' = text
    /\ UNCHANGED <<name, price, previewImage, Wishlist_isAnalyzing, analysisResult,
                   Wishlist_itemToDelete, Wishlist_uploads>>
    /\ UNCHANGED <<appVars, weatherVars, wardrobeVars, stylistVars, call>>

\* the cross on the preview
Wishlist_clearPreview ==
    /\ currentView = "WISHLIST"
    /\ Truthy(previewImage)
    /\ previewImage' = null
    /\ analysisResult' = JNull
    /\ UNCHANGED <<name, price, brand, Wishlist_isAnalyzing, Wishlist_itemToDelete,
                   Wishlist_uploads>>
    /\ UNCHANGED <<appVars, weatherVars, wardrobeVars, stylistVars, call>>

\* the form can be submitted: all three required fields are present
Submittable == Truthy(name) /\ Truthy(price) /\ Truthy(previewImage)

handleAdd_alert_forAnyField ==
    IF ~Truthy(previewImage) THEN "Please upload a photo!"
    ELSE "Please fill in the name and the price!"

\* what handleAdd alerts when it turns a submission down (null: nothing)
handleAdd_alert ==
    IF ~Truthy(previewImage) THEN "Please upload a photo!" ELSE null

\* handleAdd: the form's onSubmit handler, whatever state the form is in
\* (the submit button is disabled unless the form is submittable and no
\* analysis is running; the handler makes its own test)
Wishlist_handleAdd ==
    /\ currentView = "WISHLIST"
    /\ IF ~Submittable
       THEN /\ IF handleAdd_alert # null THEN lastAlert' = handleAdd_alert
               ELSE UNCHANGED lastAlert
            /\ UNCHANGED <<wishlist, name, price, brand, previewImage, analysisResult>>
       ELSE /\ Room
            /\ wishlist' = addToWishlist(wishlist,
                               [id |-> DateNowToString, name |-> ItemName(name, brand),
                                price |-> parseFloatOrZero(price),
                                imageUrl |-> previewImage])
            /\ name' = ""
            /\ price' = ""
            /\ brand' = ""
            /\ previewImage' = null
            /\ analysisResult' = JNull
            /\ UNCHANGED lastAlert
    /\ UNCHANGED <<Wishlist_isAnalyzing, Wishlist_itemToDelete, Wishlist_uploads>>
    /\ UNCHANGED <<currentView, wardrobe, events, isEventModalOpen, newEvent,
                   eventToDelete, now>>
    /\ UNCHANGED <<weatherVars, wardrobeVars, stylistVars, call>>

\* the cross on a row of the list
Wishlist_setItemToDelete ==
    /\ currentView = "WISHLIST"
    /\ \E i \in 1..Len(wishlist) : Wishlist_itemToDelete' = wishlist[i].id
    /\ UNCHANGED <<name, price, brand, previewImage, Wishlist_isAnalyzing,
                   analysisResult, Wishlist_uploads>>
    /\ UNCHANGED <<appVars, weatherVars, wardrobeVars, stylistVars, call>>

\* Delete in the modal
Wishlist_confirmDelete ==
    /\ currentView = "WISHLIST"
    /\ Truthy(Wishlist_itemToDelete)
    /\ wishlist' = deleteWishlistItem(wishlist, Wishlist_itemToDelete)
    /\ Wishlist_itemToDelete' = null
    /\ UNCHANGED <<name, price, brand, previewImage, Wishlist_isAnalyzing,
                   analysisResult, Wishlist_uploads>>
    /\ UNCHANGED <<currentView, wardrobe, events, isEventModalOpen, newEvent,
                   eventToDelete, now, lastAlert>>
    /\ UNCHANGED <<weatherVars, wardrobeVars, stylistVars, call>>

\* Cancel in the modal
Wishlist_cancelDelete ==
    /\ currentView = "WISHLIST"
    /\ Truthy(Wishlist_itemToDelete)
    /\ Wishlist_itemToDelete' = null
    /\ UNCHANGED <<name, price, brand, previewImage, Wishlist_isAnalyzing,
                   analysisResult, Wishlist_uploads>>
    /\ UNCHANGED <<appVars, weatherVars, wardrobeVars, stylistVars, call>>

-----------------------------------------------------------------------------
(* App: the schedule of the dashboard and its two modals.                   *)

\* setEvents(prev => prev.filter(e => e.id !== eventToDelete))
deleteEvent(prev, id) == SelectSeq(prev, LAMBDA e : e.id # id)

\* handleAddEventClick: timeString is the wall clock an hour from now, HH:MM
App_handleAddEventClick(times) ==
    /\ currentView = "DASHBOARD"
    /\ \E timeString \in times :
          newEvent' = [title |-> "", time |-> timeString, icon |-> "calendar"]
    /\ isEventModalOpen' = TRUE
    /\ UNCHANGED <<currentView, wardrobe, wishlist, events, eventToDelete, now, lastAlert>>
    /\ UNCHANGED <<weatherVars, wardrobeVars, wishlistVars, stylistVars, call>>

\* the three inputs of the New Plan modal: setNewEvent({...newEvent, [field]: text})
App_setNewEvent(field, texts) ==
    /\ isEventModalOpen
    /\ \E text \in texts : newEvent' = [newEvent EXCEPT ![field] = text]
    /\ UNCHANGED <<currentView, wardrobe, wishlist, events, isEventModalOpen,
                   eventToDelete, now, lastAlert>>
    /\ UNCHANGED <<weatherVars, wardrobeVars, wishlistVars, stylistVars, call>>

\* Cancel in the New Plan modal
App_cancelNewEvent ==
    /\ isEventModalOpen
    /\ isEventModalOpen' = FALSE
    /\ UNCHANGED <<currentView, wardrobe, wishlist, events, newEvent, eventToDelete,
                   now, lastAlert>>
    /\ UNCHANGED <<weatherVars, wardrobeVars, wishlistVars, stylistVars, call>>

\* saveNewEvent
App_saveNewEvent ==
    /\ isEventModalOpen
    /\ IF newEvent.title = ""
       THEN UNCHANGED <<events, isEventModalOpen>>
       ELSE /\ Room
            /\ events' = Append(events,
                            [id |-> DateNowToString, title |-> newEvent.title,
                             time |-> newEvent.time,
                             icon |-> IF newEvent.icon # "" THEN newEvent.icon
                                      ELSE "calendar"])
            /\ isEventModalOpen' = FALSE
    /\ UNCHANGED <<currentView, wardrobe, wishlist, newEvent, eventToDelete, now, lastAlert>>
    /\ UNCHANGED <<weatherVars, wardrobeVars, wishlistVars, stylistVars, call>>

\* the cross on a row of the schedule
App_setEventToDelete ==
    /\ currentView = "DASHBOARD"
    /\ \E i \in 1..Len(events) : eventToDelete' = events[i].id
    /\ UNCHANGED <<currentView, wardrobe, wishlist, events, isEventModalOpen, newEvent,
                   now, lastAlert>>
    /\ UNCHANGED <<weatherVars, wardrobeVars, wishlistVars, stylistVars, call>>

\* confirmDeleteEvent: Delete in the modal
App_confirmDeleteEvent ==
    /\ Truthy(eventToDelete)
    /\ events' = deleteEvent(events, eventToDelete)
    /\ eventToDelete' = null
    /\ UNCHANGED <<currentView, wardrobe, wishlist, isEventModalOpen, newEvent, now,
                   lastAlert>>
    /\ UNCHANGED <<weatherVars, wardrobeVars, wishlistVars, stylistVars, call>>

\* Cancel in the modal
App_cancelDeleteEvent ==
    /\ Truthy(eventToDelete)
    /\ eventToDelete' = null
    /\ UNCHANGED <<currentView, wardrobe, wishlist, events, isEventModalOpen, newEvent,
                   now, lastAlert>>
    /\ UNCHANGED <<weatherVars, wardrobeVars, wishlistVars, stylistVars, call>>

-----------------------------------------------------------------------------
(* The three collections together: a session that creates and deletes       *)
(* wardrobe items, wishlist items and plans.                                *)

\* the user of this session navigates with the pointer, which a modal keeps
\* from the navigation bar, and waits for an upload before leaving its view
NoModal ==
    /\ ~isEventModalOpen
    /\ eventToDelete = null
    /\ Wardrobe_itemToDelete = null
    /\ Wishlist_itemToDelete = null

Session_navigate ==
    /\ NoModal
    /\ Wardrobe_uploads = EmptyBag
    /\ Wishlist_uploads = EmptyBag
    /\ \E view \in {"DASHBOARD", "WARDROBE", "WISHLIST"} : setCurrentView(view)
Next ==
    \/ Tick
    \/ Session_navigate
    \/ Wardrobe_handleFileUpload(Files)
    \/ Wardrobe_onloadend
    \/ Wardrobe_analyzed({Rejected})
    \/ Wardrobe_setItemToDelete
    \/ Wardrobe_confirmDelete
    \/ Wardrobe_cancelDelete
    \/ Wishlist_handleFileSelect(Files)
    \/ Wishlist_onloadend
    \/ Wishlist_analyzed({Rejected})
    \/ Wishlist_similarityChecked({Rejected})
    \/ Wishlist_setPrice({"20"})
    \/ Wishlist_handleAdd
    \/ Wishlist_setItemToDelete
    \/ Wishlist_confirmDelete
    \/ Wishlist_cancelDelete
    \/ App_handleAddEventClick({"18:00"})
    \/ App_setNewEvent("title", {"Gym"})
    \/ App_cancelNewEvent
    \/ App_saveNewEvent
    \/ App_setEventToDelete
    \/ App_confirmDeleteEvent
    \/ App_cancelDeleteEvent

Spec == Init /\ [][Next]_vars

\* a classification that succeeded: the response text is JSON of an object
SuccessfulClassification(outcome) ==
    outcome.kind = "text" /\ outcome.valid /\ outcome.value.type = "object"

\* C1: when an upload's classification call returns a successful response,
\* the new item becomes the first element of the wardrobe and the items
\* present before follow it in their previous order.
C1_NewItemIsHead ==
    [][ \A u \in BagToSet(Wardrobe_uploads), outcome \in ClassifyPool :
            (SuccessfulClassification(outcome) /\ Wardrobe_analyzedOne(u, outcome))
            => /\ Len(wardrobe') = Len(wardrobe) + 1
               /\ wardrobe'[1].id = DigitsOf(now)
               /\ wardrobe'[1].imageUrl = u.image
               /\ \A i \in 1..Len(wardrobe) : wardrobe'[i + 1] = wardrobe[i] ]_vars

\* C1 witness: a classified item was put in front of an item already there
C1_Witness ==
    /\ Len(wardrobe) = 2
    /\ wardrobe[1].category = "Top" /\ wardrobe[1].description = "Cute tee"
    /\ wardrobe[2].category = "Bottom"

\* C6: when the classification call fails (request rejected, empty text,
\* text that is not JSON) an item is still added, with category "Other",
\* color "Unknown" and season "All".
C6_FailedClassificationDefaults ==
    [][ \A u \in BagToSet(Wardrobe_uploads), outcome \in ClassifyFailures :
            Wardrobe_analyzedOne(u, outcome)
            => /\ Len(wardrobe') = Len(wardrobe) + 1
               /\ wardrobe'[1].category = "Other"
               /\ wardrobe'[1].color = "Unknown"
               /\ wardrobe'[1].season = "All" ]_vars

\* C6 witness: the item of a failed classification is in the wardrobe
C6_Witness ==
    /\ Len(wardrobe) > 0
    /\ wardrobe[1].description = "Could not analyze image."
    /\ wardrobe[1].category = "Other"
    /\ wardrobe[1].color = "Unknown"
    /\ wardrobe[1].season = "All"

-----------------------------------------------------------------------------
(* The filters of the Wardrobe view, over every wardrobe that uploads can  *)
(* build within the bounds.                                                *)

\* what a classification can put into an item
Classifications ==
    { analyzeClothingItem(outcome).v :
        outcome \in {o \in ClassifyPool : CanRead(analyzeClothingItem(o).v)} }

\* the wardrobes uploads can build: newer items come first, each with the
\* clock value of its completion, which the older ones share once the clock
\* of the model is used up
UploadableWardrobes ==
    UNION { { [i \in 1..n |->
                  ItemWith(DigitsOf(10 + (IF n - i < MaxTicks THEN n - i ELSE MaxTicks)),
                           CHOOSE image \in Files : TRUE, metadata[i])] :
                metadata \in [1..n -> Classifications] } :
            n \in 0..MaxItems }

InitFilter ==
    /\ currentView = "WARDROBE"
    /\ wardrobe \in UploadableWardrobes
    /\ wishlist = <<>>
    /\ events = InitialEvents
    /\ isEventModalOpen = FALSE
    /\ newEvent = [title |-> "", time |-> "", icon |-> ""]
    /\ eventToDelete = null
    /\ weather = JNull
    /\ weatherLoading = TRUE
    /\ weatherError = null
    /\ geo = "mounting"
    /\ weatherRequests = 0
    /\ now = 10 + MaxTicks
    /\ lastAlert = null
    /\ WardrobeInitial
    /\ WishlistInitial
    /\ StylistInitial
    /\ call = [op |-> "none"]

NextFilter ==
    \/ Wardrobe_setActiveCategory
    \/ Wardrobe_setActiveColor
    \/ Wardrobe_setItemToDelete
    \/ Wardrobe_confirmDelete
    \/ Wardrobe_cancelDelete

SpecFilter == InitFilter /\ [][NextFilter]_vars

\* the elements of list a that also occur in list b
ListIntersection(a, b) == SelectSeq(a, LAMBDA x : \E j \in 1..Len(b) : b[j] = x)

\* C3: each filter is idempotent, and the list shown with both filters
\* active is the intersection of the list shown with the category filter
\* alone and the list shown with the color filter alone, whichever filter is
\* applied first.
C3_FiltersIdempotentComposable ==
    LET byCategory == FilterItems(wardrobe, activeCategory, null)
        byColor == FilterItems(wardrobe, "All", activeColor)
    IN  /\ FilterItems(byCategory, activeCategory, null) = byCategory
        /\ FilterItems(byColor, "All", activeColor) = byColor
        /\ filteredItems = ListIntersection(byCategory, byColor)
        /\ filteredItems = FilterItems(byCategory, "All", activeColor)
        /\ filteredItems = FilterItems(byColor, activeCategory, null)

\* C3 witness: both filters are active and the color filter alone shows an
\* item that the two together do not
C3_Witness ==
    /\ activeCategory # "All"
    /\ Truthy(activeColor)
    /\ Len(filteredItems) = 1
    /\ Len(FilterItems(wardrobe, "All", activeColor)) = 2

-----------------------------------------------------------------------------
(* The Wishlist view on its own.  The app starts over a wardrobe that is     *)
(* empty or holds an item, so that checkSimilarity takes both of its paths. *)

WishlistClassify == {Rejected, Json(ClassifyObj("Top", "Red", "Summer", "Cute tee"))}
WishlistSimilarity ==
    {Rejected, Json(JNull), Json(SimilarityResult(TRUE, "You own a red tee already"))}
InitOverWardrobe ==
    /\ currentView = "DASHBOARD"
    /\ wardrobe \in WardrobeSamples
    /\ wishlist = <<>>
    /\ events = InitialEvents
    /\ isEventModalOpen = FALSE
    /\ newEvent = [title |-> "", time |-> "", icon |-> ""]
    /\ eventToDelete = null
    /\ weather = JNull
    /\ weatherLoading = TRUE
    /\ weatherError = null
    /\ geo = "mounting"
    /\ weatherRequests = 0
    /\ now = 10
    /\ lastAlert = null
    /\ WardrobeInitial
    /\ WishlistInitial
    /\ StylistInitial
    /\ call = [op |-> "none"]

NextWishlist ==
    \/ Tick
    \/ (\E view \in {"DASHBOARD", "WISHLIST"} : setCurrentView(view))
    \/ Wishlist_handleFileSelect(Files)
    \/ Wishlist_onloadend
    \/ Wishlist_analyzed(WishlistClassify)
    \/ Wishlist_similarityChecked(WishlistSimilarity)
    \/ Wishlist_setName({"", "Bag"})
    \/ Wishlist_setPrice({"", "20"})
    \/ Wishlist_setBrand({"", "Zara"})
    \/ Wishlist_clearPreview
    \/ Wishlist_handleAdd
    \/ Wishlist_setItemToDelete
    \/ Wishlist_confirmDelete
    \/ Wishlist_cancelDelete

SpecWishlist == InitOverWardrobe /\ [][NextWishlist]_vars

-----------------------------------------------------------------------------
(* Stylist view: daily vibe, week planner, inspiration match.               *)

getWeatherContextString_cloudyTo50 ==
    IF weather = JNull THEN "Temperature is 20C, clear skies."
    ELSE "Current weather is " \o DigitsOf(weather.temperature) \o "C and "
            \o (IF weather.weatherCode <= 3 THEN "Clear/Sunny"
                ELSE IF weather.weatherCode <= 50 THEN "Cloudy" ELSE "Rainy/Cold")
            \o "."

\* App.getWeatherContextString, the weatherContext prop of the Stylist view
getWeatherContextString ==
    IF weather = JNull THEN "Temperature is 20C, clear skies."
    ELSE "Current weather is " \o DigitsOf(weather.temperature) \o "C and "
            \o (IF weather.weatherCode <= 3 THEN "Clear/Sunny"
                ELSE IF weather.weatherCode <= 60 THEN "Cloudy" ELSE "Rainy/Cold")
            \o "."

SUGGESTED_VIBES == {"Chill Coffee Run", "Dinner Date", "City Walk", "Sunday Brunch"}
SUGGESTED_WEEKS == {"Finals Mode", "Busy Week", "Vacation Mode"}

\* truthiness of a parsed JSON value
TruthyJ(v) == v.type # "null" /\ (v.type = "number" => v.n # 0)

\* the input interface is rendered
InputShown == ~TruthyJ(generatedOutfit) /\ ~TruthyJ(weeklyPlan) /\ ~isLoading

\* a request of the Stylist view: the props and the mode its handler closed over
StylistRequest(kind, phase, text) ==
    [kind |-> kind, phase |-> phase, mounted |-> TRUE, w |-> wardrobe,
     context |-> getWeatherContextString, text |-> text]

\* the three tabs
Stylist_setMode ==
    /\ currentView = "STYLIST"
    /\ \E m \in {"SINGLE", "WEEKLY", "INSPO"} : mode' = m
    /\ generatedOutfit' = JNull
    /\ weeklyPlan' = JNull
    /\ UNCHANGED <<vibeInput, isLoading, Stylist_requests>>
    /\ UNCHANGED <<appVars, weatherVars, wardrobeVars, wishlistVars, call>>

\* typing in the vibe input
Stylist_setVibeInput(texts) ==
    /\ currentView = "STYLIST"
    /\ InputShown
    /\ mode # "INSPO"
    /\ \E text \in texts : vibeInput' = text
    /\ UNCHANGED <<mode, generatedOutfit, weeklyPlan, isLoading, Stylist_requests>>
    /\ UNCHANGED <<appVars, weatherVars, wardrobeVars, wishlistVars, call>>

\* handleGenerate(preset), up to the await
handleGenerate(preset) ==
    LET query == IF preset # "" THEN preset ELSE vibeInput
    IN  IF query = ""
        THEN UNCHANGED <<isLoading, Stylist_requests>>
        ELSE /\ isLoading' = TRUE
             /\ Stylist_requests' = Stylist_requests (+) SetToBag({
                    StylistRequest(IF mode = "SINGLE" THEN "outfit" ELSE "weekly",
                                   "calling", query)})

\* the arrow button next to the input, disabled while the input is empty
Stylist_generate ==
    /\ currentView = "STYLIST"
    /\ InputShown
    /\ mode # "INSPO"
    /\ vibeInput # ""
    /\ BagCardinality(Stylist_requests) < MaxInflight
    /\ handleGenerate("")
    /\ UNCHANGED <<vibeInput, mode, generatedOutfit, weeklyPlan>>
    /\ UNCHANGED <<appVars, weatherVars, wardrobeVars, wishlistVars, call>>

\* a suggestion chip: setVibeInput(suggestion); handleGenerate(suggestion)
Stylist_suggest(picks) ==
    /\ currentView = "STYLIST"
    /\ InputShown
    /\ mode # "INSPO"
    /\ BagCardinality(Stylist_requests) < MaxInflight
    /\ \E suggestion \in picks \cap (IF mode = "SINGLE" THEN SUGGESTED_VIBES
                                      ELSE SUGGESTED_WEEKS) :
          /\ vibeInput' = suggestion
          /\ handleGenerate(suggestion)
    /\ UNCHANGED <<mode, generatedOutfit, weeklyPlan>>
    /\ UNCHANGED <<appVars, weatherVars, wardrobeVars, wishlistVars, call>>

\* handleInspoUpload, up to reader.readAsDataURL(file)
Stylist_handleInspoUpload(files) ==
    /\ currentView = "STYLIST"
    /\ InputShown
    /\ mode = "INSPO"
    /\ BagCardinality(Stylist_requests) < MaxInflight
    /\ \E file \in files :
          Stylist_requests' = Stylist_requests (+) SetToBag({
                StylistRequest("inspo", "reading", file)})
    /\ isLoading' = TRUE
    /\ UNCHANGED <<vibeInput, mode, generatedOutfit, weeklyPlan>>
    /\ UNCHANGED <<appVars, weatherVars, wardrobeVars, wishlistVars, call>>

\* reader.onloadend of handleInspoUpload, up to the await
Stylist_onloadend ==
    /\ \E r \in BagToSet(Stylist_requests) :
          /\ r.phase = "reading"
          /\ Stylist_requests' = (Stylist_requests (-) SetToBag({r}))
                                    (+) SetToBag({[r EXCEPT !.phase = "calling"]})
    /\ UNCHANGED <<vibeInput, mode, generatedOutfit, weeklyPlan, isLoading>>
    /\ UNCHANGED <<appVars, weatherVars, wardrobeVars, wishlistVars, call>>

\* what the call of request r resolves to
StylistResult(r, outcome) ==
    IF r.kind = "outfit" THEN generateOutfit(r.w, r.context, r.text, outcome)
    ELSE IF r.kind = "weekly" THEN generateWeeklyPlan(r.w, r.context, r.text, outcome)
    ELSE generateOutfitFromImage(r.w, r.text, outcome)

Stylist_settled_setsBoth(outfits, plans) ==
    \E r \in BagToSet(Stylist_requests) :
      \E outcome \in (IF r.kind = "weekly" THEN plans ELSE outfits) :
        /\ r.phase = "calling"
        /\ Stylist_requests' = Stylist_requests (-) SetToBag({r})
        /\ IF ~r.mounted
           THEN UNCHANGED <<generatedOutfit, weeklyPlan, isLoading>>
           ELSE /\ weeklyPlan' = StylistResult(r, outcome).v
                /\ generatedOutfit' = StylistResult(r, outcome).v
                /\ isLoading' = FALSE
        /\ UNCHANGED <<vibeInput, mode>>
        /\ UNCHANGED <<appVars, weatherVars, wardrobeVars, wishlistVars, call>>

\* the rest of handleGenerate or of onloadend, after the await
Stylist_settled(outfits, plans) ==
    \E r \in BagToSet(Stylist_requests) :
      \E outcome \in (IF r.kind = "weekly" THEN plans ELSE outfits) :
        /\ r.phase = "calling"
        /\ Stylist_requests' = Stylist_requests (-) SetToBag({r})
        /\ IF ~r.mounted
           THEN UNCHANGED <<generatedOutfit, weeklyPlan, isLoading>>
           ELSE /\ IF r.kind = "weekly"
                   THEN /\ weeklyPlan' = StylistResult(r, outcome).v
                        /\ generatedOutfit' = JNull
                   ELSE /\ generatedOutfit' = StylistResult(r, outcome).v
                        /\ weeklyPlan' = JNull
                /\ isLoading' = FALSE
        /\ UNCHANGED <<vibeInput, mode>>
        /\ UNCHANGED <<appVars, weatherVars, wardrobeVars, wishlistVars, call>>

\* Reset above the single outfit
Stylist_resetOutfit ==
    /\ currentView = "STYLIST"
    /\ TruthyJ(generatedOutfit)
    /\ ~isLoading
    /\ generatedOutfit' = JNull
    /\ UNCHANGED <<vibeInput, mode, weeklyPlan, isLoading, Stylist_requests>>
    /\ UNCHANGED <<appVars, weatherVars, wardrobeVars, wishlistVars, call>>

\* Reset above the weekly plan
Stylist_resetPlan ==
    /\ currentView = "STYLIST"
    /\ TruthyJ(weeklyPlan)
    /\ ~isLoading
    /\ weeklyPlan' = JNull
    /\ UNCHANGED <<vibeInput, mode, generatedOutfit, isLoading, Stylist_requests>>
    /\ UNCHANGED <<appVars, weatherVars, wardrobeVars, wishlistVars, call>>

\* the days of the sections of the Weekly Plan result, top to bottom:
\* Object.entries(weeklyPlan).map(([day, outfit]) => ...)
WeeklySections ==
    IF TruthyJ(weeklyPlan) /\ ~isLoading
    THEN [i \in 1..Len(ObjectEntries(weeklyPlan)) |-> ObjectEntries(weeklyPlan)[i][1]]
    ELSE <<>>

StylistOutfits ==
    {Rejected, Json(Obj(<<"itemIds", "explanation", "vibe">>,
                        [itemIds |-> <<"10">>, explanation |-> "Easy", vibe |-> "Casual"]))}

NextStylist ==
    \/ (\E view \in {"DASHBOARD", "STYLIST"} : setCurrentView(view))
    \/ Stylist_setMode
    \/ Stylist_setVibeInput({""} \cup Vibes)
    \/ Stylist_generate
    \/ Stylist_suggest({"Dinner Date", "Busy Week"})
    \/ Stylist_handleInspoUpload(Files)
    \/ Stylist_onloadend
    \/ Stylist_settled(StylistOutfits, WeeklyPool)
    \/ Stylist_resetOutfit
    \/ Stylist_resetPlan

SpecStylist == InitOverWardrobe /\ [][NextStylist]_vars

\* C4: a weekly-plan response that contains the five keys Monday to Friday,
\* in whatever order it lists them, is rendered as exactly five outfit
\* sections in the order Monday, Tuesday, Wednesday, Thursday, Friday.
C4_WeekRenderedMondayToFriday ==
    (/\ TruthyJ(weeklyPlan)
     /\ ~isLoading
     /\ weeklyPlan.type = "object"
     /\ SeqRange(Weekdays) \subseteq SeqRange(weeklyPlan.keys))
        => WeeklySections = Weekdays

-----------------------------------------------------------------------------
(* Deleting and submitting                                                  *)

\* seq without its i-th element
RemoveAt(seq, i) == SubSeq(seq, 1, i - 1) \o SubSeq(seq, i + 1, Len(seq))

\* the confirmed deletion of the element called id took exactly one element,
\* one with that id, out of before
RemovedExactlyOne(before, after, id) ==
    \E i \in 1..Len(before) : before[i].id = id /\ after = RemoveAt(before, i)

\* C2: in every reachable state, deleting by identifier removes exactly one
\* element of the wardrobe (likewise of the wishlist and of the schedule),
\* the one with the matching identifier, and leaves the others in their order.
C2_DeleteRemovesExactlyOne ==
    [][ /\ Wardrobe_confirmDelete
            => RemovedExactlyOne(wardrobe, wardrobe', Wardrobe_itemToDelete)
        /\ Wishlist_confirmDelete
            => RemovedExactlyOne(wishlist, wishlist', Wishlist_itemToDelete)
        /\ App_confirmDeleteEvent
            => RemovedExactlyOne(events, events', eventToDelete) ]_vars

\* how often e occurs in seq
Occurrences(seq, e) == Cardinality({i \in 1..Len(seq) : seq[i] = e})

\* the elements of before that after holds fewer times
RemovedFrom(before, after) ==
    {before[i] : i \in {j \in 1..Len(before) :
                            Occurrences(after, before[j]) < Occurrences(before, before[j])}}

\* a step of the delete dialogue of one collection: elements leave it only in
\* the confirm step and are the selected ones; a selection is made among the
\* elements present; cancelling changes only the selection, which it clears
ConfirmedDeletion(before, after, selected, selectedAfter, confirm, cancel) ==
    /\ (after # before /\ RemovedFrom(before, after) # {})
            => /\ Truthy(selected)
               /\ confirm
               /\ \A e \in RemovedFrom(before, after) : e.id = selected
    /\ (selectedAfter # selected /\ selectedAfter # null)
            => \E i \in 1..Len(before) : before[i].id = selectedAfter
    /\ cancel => after = before /\ selectedAfter = null

\* C9: an element leaves the wardrobe (likewise the wishlist, the schedule)
\* only when the user, having selected that element for deletion, confirms in
\* the modal; cancelling after selecting leaves the collection unchanged and
\* clears the pending selection.
C9_DeleteNeedsConfirmation ==
    [][ /\ ConfirmedDeletion(wardrobe, wardrobe', Wardrobe_itemToDelete,
                             Wardrobe_itemToDelete', Wardrobe_confirmDelete,
                             Wardrobe_cancelDelete)
        /\ ConfirmedDeletion(wishlist, wishlist', Wishlist_itemToDelete,
                             Wishlist_itemToDelete', Wishlist_confirmDelete,
                             Wishlist_cancelDelete)
        /\ ConfirmedDeletion(events, events', eventToDelete, eventToDelete',
                             App_confirmDeleteEvent, App_cancelDeleteEvent) ]_vars

\* the first of the two initial plans has been deleted and a plan added since,
\* while an item of the wardrobe is selected for deletion and one of the
\* wishlist was kept
C9_Witness ==
    /\ Len(events) = 2
    /\ events[1] = InitialEvents[2]
    /\ events[2].title = "Gym"
    /\ eventToDelete = null
    /\ Len(wishlist) = 1
    /\ Len(wardrobe) = 1
    /\ Wardrobe_itemToDelete = wardrobe[1].id

\* C10: submitting the wishlist form while the name, the price or the preview
\* image is empty leaves the wishlist and the form fields unchanged;
\* submitting with all three present prepends exactly one new item and resets
\* name, price, brand, preview image and analysis result.
C10_SubmitAllOrNothing ==
    [][ Wishlist_handleAdd =>
            IF name = "" \/ price = "" \/ previewImage = null
            THEN UNCHANGED <<wishlist, name, price, brand, previewImage, analysisResult>>
            ELSE /\ Len(wishlist') = Len(wishlist) + 1
                 /\ Tail(wishlist') = wishlist
                 /\ wishlist'[1].id = DigitsOf(now)
                 /\ wishlist'[1].imageUrl = previewImage
                 /\ SubSeq(wishlist'[1].name, 1, Len(name)) = name
                 /\ name' = ""
                 /\ price' = ""
                 /\ brand' = ""
                 /\ previewImage' = null
                 /\ analysisResult' = JNull ]_vars

\* a second item, typed with a brand, has been put before the first, and a
\* submission without a photo has been turned down
C10_Witness ==
    /\ Len(wishlist) = 2
    /\ wishlist[1].name = "Bag (Zara)"
    /\ wishlist[1].price = 20
    /\ previewImage = null
    /\ analysisResult = JNull
    /\ lastAlert = "Please upload a photo!"

-----------------------------------------------------------------------------
(* Stylist: the picture of an outfit (renderOutfitVisual).                  *)

\* how long the lists of returned item ids get
MaxIds == 3

categoryOrder_bottomFirst(category) == IF category = "Bottom" THEN 1 ELSE 99

\* (categoryOrder[category] || 99)
categoryOrder(category) ==
    CASE category = "Top" -> 1
      [] category = "One-Piece" -> 2
      [] category = "Outerwear" -> 3
      [] category = "Bottom" -> 4
      [] category = "Shoes" -> 5
      [] category = "Accessory" -> 6
      [] category = "Other" -> 7
      [] OTHER -> 99

\* itemIds.map(id => wardrobe.find(w => w.id === id)).filter(Boolean)
RECURSIVE FoundItems(_, _)
FoundItems(w, itemIds) ==
    IF Len(itemIds) = 0 THEN <<>>
    ELSE LET found == SelectSeq(w, LAMBDA x : x.id = Head(itemIds))
         IN  (IF Len(found) = 0 THEN <<>> ELSE <<Head(found)>>)
                \o FoundItems(w, Tail(itemIds))

\* item put into a list sorted by the comparator, behind the elements the
\* comparator does not put after it
RECURSIVE InsertByCategory(_, _)
InsertByCategory(item, sorted) ==
    IF Len(sorted) = 0 THEN <<item>>
    ELSE IF categoryOrder(Head(sorted).category) - categoryOrder(item.category) <= 0
         THEN <<Head(sorted)>> \o InsertByCategory(item, Tail(sorted))
         ELSE <<item>> \o sorted

\* items.sort((a, b) => (categoryOrder[a.category] || 99) - (categoryOrder[b.category] || 99)):
\* Array.prototype.sort is stable
RECURSIVE SortByCategory(_)
SortByCategory(items) ==
    IF Len(items) = 0 THEN <<>>
    ELSE InsertByCategory(items[Len(items)], SortByCategory(SubSeq(items, 1, Len(items) - 1)))

\* the items renderOutfitVisual(itemIds, compact) draws over wardrobe w, in
\* the order of the grid
renderOutfitVisual(w, itemIds, compact) ==
    LET items == SortByCategory(FoundItems(w, itemIds))
    IN  IF compact THEN SubSeq(items, 1, IF Len(items) < 4 THEN Len(items) ELSE 4)
        ELSE items

\* wardrobes to draw over: none, five items (two tops, a category outside
\* the table), two items that share an id
RenderWardrobes ==
    { <<>>,
      << ClothingItem("14", "data:image/jpeg;base64,A", "Shoes", "White", "All", "Sneakers"),
         ClothingItem("13", "data:image/jpeg;base64,B", "Top", "Red", "Summer", "Cute tee"),
         ClothingItem("12", "data:image/jpeg;base64,A", "Hat", "red velvet", "Winter", "Beanie"),
         ClothingItem("11", "data:image/jpeg;base64,A", "Top", "Blue", "All", "Shirt"),
         ClothingItem("10", "data:image/jpeg;base64,B", "Other", "Unknown", "All",
                      "Could not analyze image.") >>,
      << ClothingItem("10", "data:image/jpeg;base64,B", "Shoes", "White", "All", "Sneakers"),
         ClothingItem("10", "data:image/jpeg;base64,A", "Top", "Red", "Summer", "Cute tee") >> }

\* lists of returned ids: every short list over four ids, one of which no
\* wardrobe has, and two lists of five
ReturnedIds ==
    UNION { [1..n -> {"10", "11", "13", "99"}] : n \in 0..MaxIds }
        \cup { <<"10", "11", "12", "13", "14">>, <<"14", "13", "12", "11", "10">> }

Render_outfitVisual ==
    /\ call.op = "none"
    /\ \E w \in RenderWardrobes, itemIds \in ReturnedIds, compact \in BOOLEAN :
          call' = [op |-> "renderOutfitVisual", w |-> w, itemIds |-> itemIds,
                   compact |-> compact,
                   result |-> renderOutfitVisual(w, itemIds, compact)]
    /\ UNCHANGED <<appVars, weatherVars, wardrobeVars, wishlistVars, stylistVars>>

NextRender == Render_outfitVisual

SpecRender == Init /\ [][NextRender]_vars

\* the order of categories the display is said to follow
DisplayOrder == <<"Top", "One-Piece", "Outerwear", "Bottom", "Shoes", "Accessory", "Other">>
DisplayRank(category) ==
    IF \E k \in 1..Len(DisplayOrder) : DisplayOrder[k] = category
    THEN CHOOSE k \in 1..Len(DisplayOrder) : DisplayOrder[k] = category
    ELSE Len(DisplayOrder) + 1

\* the positions of id in the list of returned ids
PositionsOf(itemIds, id) == {k \in 1..Len(itemIds) : itemIds[k] = id}

RECURSIVE RankByRank(_, _)
RankByRank(items, rank) ==
    IF rank > Len(DisplayOrder) + 1 THEN <<>>
    ELSE SelectSeq(items, LAMBDA x : DisplayRank(x.category) = rank)
            \o RankByRank(items, rank + 1)

\* for each returned id, in the order returned, the first wardrobe item of
\* that id, if there is one
FirstMatches(w, itemIds) ==
    LET hits == SelectSeq(itemIds, LAMBDA id : \E i \in 1..Len(w) : w[i].id = id)
    IN  [k \in 1..Len(hits) |->
            w[CHOOSE i \in 1..Len(w) :
                  w[i].id = hits[k] /\ \A j \in 1..(i - 1) : w[j].id # hits[k]]]

-----------------------------------------------------------------------------
(* Weather: no position, and a failing fetch *)

\* C12: when geolocation is unsupported or the permission is denied, no
\* weather request is issued, the weather stays null, the loading flag is
\* false and the weather card shows the fallback greeting.
C12_NoPositionNoRequest ==
    weatherError \in {"Geolocation not supported", "Location access denied"}
    => /\ weatherRequests = 0
       /\ geo = "done"
       /\ weather = JNull
       /\ ~weatherLoading
       /\ WeatherWidget.shows = "fallback greeting"

\* C12 witness: the permission was denied and the card greets without weather
C12_Witness ==
    /\ weatherError = "Location access denied"
    /\ weatherRequests = 0
    /\ WeatherWidget.shows = "fallback greeting"

\* the outcomes of the fetch that the claim counts as failures: a network
\* error, a body that is not JSON, JSON without current_weather
FetchFailures ==
    { outcome \in WeatherPool :
        \/ outcome.kind = "rejected"
        \/ ~outcome.valid
        \/ ~HasProp(outcome.value, "current_weather") }

\* C13: every failure of the weather fetch is caught: weatherError is set,
\* weather stays null and weatherLoading becomes false; and weather and
\* weatherError are never both set.
C13_FetchFailureIsCaught ==
    /\ [](~(weather # JNull /\ weatherError # null))
    /\ [][\A outcome \in FetchFailures :
             fetchWeather_settled({outcome})
             => /\ weatherError' = "Could not fetch weather"
                /\ weather' = JNull
                /\ ~weatherLoading']_vars

\* C13 witness: the position was granted, the fetch failed, the error is set
C13_Witness ==
    /\ weatherRequests = 1
    /\ geo = "done"
    /\ weatherError = "Could not fetch weather"
    /\ weather = JNull
    /\ ~weatherLoading


-----------------------------------------------------------------------------
(* Wishlist: what a refused submission tells the user *)

\* the form lacks a required field
Blocked == name = "" \/ price = "" \/ previewImage = null

\* C14 (as claimed): whenever a wishlist submission is blocked because the
\* name, the price or the image is missing, the user is shown a prompt
\* naming the problem.
C14_BlockedSubmissionPrompts ==
    (currentView = "WISHLIST" /\ Blocked) => handleAdd_alert # null

\* C14: a blocked wishlist submission prompts the user exactly when the image
\* is missing, with "Please upload a photo!"; with the image present and the
\* name or the price missing it returns without any prompt.  In both cases
\* the handler completes and changes nothing else.
C14_BlockedSubmissionPromptsForPhotoOnly ==
    /\ []((currentView = "WISHLIST" /\ Blocked)
            => (handleAdd_alert # null <=> previewImage = null))
    /\ [][(Wishlist_handleAdd /\ Blocked)
            => /\ lastAlert' = (IF previewImage = null THEN "Please upload a photo!"
                                ELSE lastAlert)
               /\ UNCHANGED <<wishlist, name, price, brand, previewImage,
                              analysisResult, Wishlist_isAnalyzing>>]_vars

\* C14 witness: a submission without a photo has been prompted, and now the
\* photo is there while the name is still missing: submitting prompts nothing
C14_Witness ==
    /\ currentView = "WISHLIST"
    /\ lastAlert = "Please upload a photo!"
    /\ previewImage # null
    /\ name = ""
    /\ handleAdd_alert = null


-----------------------------------------------------------------------------
(* Navigation between the four views, over collections that change *)

\* the views whose block App renders: one conditional block per view
App_render == {view \in AppView : currentView = view}

NextNavigation ==
    \/ Tick
    \/ Navigate
    \/ Wardrobe_handleFileUpload(Files)
    \/ Wardrobe_onloadend
    \/ Wardrobe_analyzed(WishlistClassify)
    \/ Wardrobe_setItemToDelete
    \/ Wardrobe_confirmDelete
    \/ Wardrobe_cancelDelete
    \/ App_setEventToDelete
    \/ App_confirmDeleteEvent
    \/ App_cancelDeleteEvent

SpecNavigation == InitOverWardrobe /\ [][NextNavigation]_vars

\* C15: the view is always one of DASHBOARD, WARDROBE, STYLIST, WISHLIST and
\* starts at DASHBOARD; exactly one view is rendered in every state; from
\* every state each of the four views is one navigation away; and a change
\* of view leaves the wardrobe, the wishlist and the schedule unchanged.
C15_OneViewAndFreeNavigation ==
    /\ currentView = "DASHBOARD"
    /\ [](currentView \in AppView /\ App_render = {currentView})
    /\ [](\A view \in AppView : ENABLED setCurrentView(view))
    /\ [][currentView' # currentView => UNCHANGED <<wardrobe, wishlist, events>>]_vars

\* C15 witness: the Wishlist view has been reached (by way of another view)
\* with an item in the wardrobe and an event deleted from the schedule
C15_Witness ==
    /\ currentView = "WISHLIST"
    /\ App_render = {"WISHLIST"}
    /\ Len(wardrobe) = 2
    /\ Len(events) = 1


-----------------------------------------------------------------------------
(* Requests that never complete *)

\* the requests of the bag that the mounted view has issued and that have
\* not completed
Outstanding(requests) == {r \in BagToSet(requests) : r.mounted /\ r.phase = "calling"}

\* C16 (as claimed): while an external request issued by a view has not
\* completed, the view stays in its loading state, whatever else the user
\* does in that view: a request that never completes keeps the loading flag
\* set forever.
C16_HungRequestKeepsLoading ==
    /\ Outstanding(Wardrobe_uploads) # {} => Wardrobe_isAnalyzing
    /\ Outstanding(Wishlist_uploads) # {} => Wishlist_isAnalyzing
    /\ Outstanding(Stylist_requests) # {} => isLoading


-----------------------------------------------------------------------------
(* Wishlist: the two calls of an upload *)

\* what upload u may become when one of its two calls settles
SettledFrom(u) ==
    {[u EXCEPT !.metadata = analyzeClothingItem(outcome)] : outcome \in WishlistClassify}
      \cup {[u EXCEPT !.similarity = checkSimilarity(u.image, u.w, outcome)] :
                outcome \in WishlistSimilarity}

\* in this step the name field, the similarity banner, take what the calls
\* of upload s returned
NameReflects(s) ==
    /\ s.metadata # Pending
    /\ CanRead(s.metadata.v)
    /\ name' = AutoName(s.metadata.v)
BannerReflects(s) ==
    /\ s.similarity # Pending
    /\ CanRead(s.similarity.v)
    /\ analysisResult' = AnalysisOf(s.similarity.v)

\* C17 (as claimed): both calls of a wishlist upload are issued before either
\* has completed; while one of them is outstanding the name field and the
\* similarity banner are left alone; and the step that follows the second
\* completion updates the name exactly when it updates the banner, so that no
\* state shows one of them from this upload without the other.
C17_NameAndBannerTogether ==
    /\ [](\A u \in BagToSet(Wishlist_uploads) :
            u.phase = "reading" => (u.metadata = Pending /\ u.similarity = Pending))
    /\ [][\A u \in BagToSet(Wishlist_uploads) : \A s \in SettledFrom(u) :
            (u.mounted /\ u.phase = "calling" /\ Wishlist_settle(u, s))
            => IF s.metadata = Pending \/ s.similarity = Pending
               THEN UNCHANGED <<name, analysisResult>>
               ELSE NameReflects(s) <=> BannerReflects(s)]_vars


-----------------------------------------------------------------------------
(* App: the schedule as it is displayed (sortedEvents) *)

localeCompare_allEqual(a, b) == 0

\* a.localeCompare(b) on time strings: the collation puts the colon before
\* the digits, and a string before the strings it is a proper prefix of
RECURSIVE localeCompare(_, _)
localeCompare(a, b) ==
    LET collation == ":0123456789"
        rank(c) == CHOOSE i \in 1..Len(collation) : CharAt(collation, i) = c
    IN  IF a = "" THEN (IF b = "" THEN 0 ELSE -1)
        ELSE IF b = "" THEN 1
        ELSE IF rank(CharAt(a, 1)) < rank(CharAt(b, 1)) THEN -1
        ELSE IF rank(CharAt(a, 1)) > rank(CharAt(b, 1)) THEN 1
        ELSE localeCompare(SubSeq(a, 2, Len(a)), SubSeq(b, 2, Len(b)))

\* [...es].sort((a, b) => a.time.localeCompare(b.time)): a stable sort of a
\* copy; the first of the least elements comes first
RECURSIVE SortByTime(_)
SortByTime(es) ==
    IF es = <<>> THEN <<>>
    ELSE LET i == CHOOSE k \in 1..Len(es) :
                     /\ \A j \in 1..Len(es) : localeCompare(es[k].time, es[j].time) <= 0
                     /\ \A j \in 1..(k - 1) : localeCompare(es[j].time, es[k].time) > 0
         IN  <<es[i]>> \o SortByTime(SubSeq(es, 1, i - 1) \o SubSeq(es, i + 1, Len(es)))

sortedEvents == SortByTime(events)

\* the two modals cover the dashboard: its buttons are out of reach while one
\* of them is open
NextSchedule ==
    \/ (NoModal /\ App_handleAddEventClick({"18:00"}))
    \/ App_setNewEvent("title", {"Gym"})
    \/ App_setNewEvent("time", {"", "09:30"})
    \/ App_cancelNewEvent
    \/ App_saveNewEvent
    \/ (NoModal /\ App_setEventToDelete)
    \/ App_confirmDeleteEvent
    \/ App_cancelDeleteEvent

SpecSchedule == Init /\ [][NextSchedule]_vars

\* a <= b in the lexicographic order of the code units
RECURSIVE LexLeq(_, _)
LexLeq(a, b) ==
    LET units == "0123456789:"
        unit(c) == CHOOSE i \in 1..Len(units) : CharAt(units, i) = c
    IN  IF a = "" THEN TRUE
        ELSE IF b = "" THEN FALSE
        ELSE IF unit(CharAt(a, 1)) < unit(CharAt(b, 1)) THEN TRUE
        ELSE IF unit(CharAt(a, 1)) > unit(CharAt(b, 1)) THEN FALSE
        ELSE LexLeq(SubSeq(a, 2, Len(a)), SubSeq(b, 2, Len(b)))

\* how many times each element occurs in a sequence
CountsOf(s) ==
    [e \in {s[i] : i \in DOMAIN s} |-> Cardinality({i \in DOMAIN s : s[i] = e})]

\* s is t with elements left out, the rest in the order of t
RECURSIVE IsSubsequence(_, _)
IsSubsequence(s, t) ==
    IF s = <<>> THEN TRUE
    ELSE IF t = <<>> THEN FALSE
    ELSE IF Head(s) = Head(t) THEN IsSubsequence(Tail(s), Tail(t))
    ELSE IsSubsequence(s, Tail(t))

\* C18: after any sequence of event additions and deletions the displayed
\* schedule is a permutation of the stored events in non-decreasing
\* lexicographic order of their time strings, and the stored list is never
\* reordered: it only grows at its end or loses elements.
C18_DisplaySortedStoredKept ==
    /\ [](LET displayed == sortedEvents
          IN  /\ CountsOf(displayed) = CountsOf(events)
              /\ Len(displayed) = Len(events)
              /\ \A i \in 1..(Len(displayed) - 1) :
                    LexLeq(displayed[i].time, displayed[i + 1].time))
    /\ [][events' # events
            => \/ Len(events') = Len(events) + 1 /\ SubSeq(events', 1, Len(events)) = events
               \/ IsSubsequence(events', events)]_vars

\* C18 witness: an event at 09:30 and one without a time were added after
\* the two initial ones; they are stored last and displayed first
C18_Witness ==
    /\ Len(events) = 4
    /\ events[1].time = "10:00"
    /\ events[3].time = "09:30"
    /\ events[4].time = ""
    /\ sortedEvents[1] = events[4]
    /\ sortedEvents[2] = events[3]
    /\ sortedEvents[3] = events[1]


-----------------------------------------------------------------------------
(* A session over the three collections with the Stylist view in reach *)

\* navigation waits for the uploads in flight, and one generation request is
\* out at a time
NextFrames ==
    \/ (NoModal /\ Wardrobe_uploads = EmptyBag /\ Wishlist_uploads = EmptyBag /\ Navigate)
    \/ Wardrobe_handleFileUpload(Files)
    \/ Wardrobe_onloadend
    \/ Wardrobe_analyzed({Rejected})
    \/ Wardrobe_setItemToDelete
    \/ Wardrobe_confirmDelete
    \/ Wishlist_handleFileSelect(Files)
    \/ Wishlist_onloadend
    \/ Wishlist_analyzed({Rejected})
    \/ Wishlist_similarityChecked({Rejected})
    \/ Wishlist_setPrice({"20"})
    \/ Wishlist_handleAdd
    \/ Wishlist_setItemToDelete
    \/ Wishlist_confirmDelete
    \/ (NoModal /\ App_handleAddEventClick({"18:00"}))
    \/ App_setNewEvent("title", {"Gym"})
    \/ App_saveNewEvent
    \/ (NoModal /\ App_setEventToDelete)
    \/ App_confirmDeleteEvent
    \/ (Stylist_requests = EmptyBag /\ Stylist_suggest({"Dinner Date"}))
    \/ Stylist_settled(StylistOutfits, {Rejected})

SpecFrames == Init /\ [][NextFrames]_vars

\* C19: a step that changes the wardrobe leaves the wishlist and the
\* schedule unchanged, a step that changes the wishlist leaves the wardrobe
\* and the schedule unchanged, a step that changes the schedule leaves the
\* wardrobe and the wishlist unchanged; and a step that deletes from the
\* wardrobe leaves the generated outfit, the weekly plan and the generation
\* requests in flight as they were.
C19_EachCollectionOnItsOwn ==
    [][ /\ wardrobe' # wardrobe => UNCHANGED <<wishlist, events>>
        /\ wishlist' # wishlist => UNCHANGED <<wardrobe, events>>
        /\ events' # events => UNCHANGED <<wardrobe, wishlist>>
        /\ Wardrobe_confirmDelete
              => UNCHANGED <<generatedOutfit, weeklyPlan, Stylist_requests>> ]_vars

\* C19 witness: the only wardrobe item was deleted while an outfit request
\* that had read it was in flight; the request still holds the item, and the
\* wishlist and the schedule have their own additions
C19_Witness ==
    /\ wardrobe = <<>>
    /\ Len(wishlist) = 1
    /\ Len(events) = 3
    /\ \E r \in BagToSet(Stylist_requests) : Len(r.w) = 1


-----------------------------------------------------------------------------
(* Wardrobe: the categories of the stored items *)

\* type ClothingCategory
ClothingCategory == {"Top", "Bottom", "Outerwear", "Shoes", "One-Piece", "Accessory", "Other"}

\* C20 (as claimed): in every reachable state every item of the wardrobe has
\* a category of the enumeration, whatever the classification responses
\* contained.
C20_CategoriesWithinEnum ==
    \A i \in 1..Len(wardrobe) : wardrobe[i].category \in ClothingCategory


-----------------------------------------------------------------------------
(* Wardrobe: the fields a classification leaves out *)

\* the parsed response has no value for key k, or an empty one
Lacks(v, k) == ~HasProp(v, k) \/ v.val[k] = ""

\* the field of the new item is the one returned, or d where none was
KeptOr(v, k, d, field) == field = (IF Lacks(v, k) THEN d ELSE v.val[k])

\* C21: when a classification response is valid JSON, the wardrobe item
\* created from it has "Other" for a missing or empty category, "Unknown"
\* for a missing or empty color and "All" for a missing or empty season, and
\* the fields that were present are kept as returned.
C21_MissingFieldsDefaulted ==
    [][ \A u \in BagToSet(Wardrobe_uploads), v \in ClassifyJson :
            (Wardrobe_analyzedOne(u, Json(v)) /\ wardrobe' # wardrobe)
            => /\ Len(wardrobe') = Len(wardrobe) + 1
               /\ KeptOr(v, "category", "Other", wardrobe'[1].category)
               /\ KeptOr(v, "color", "Unknown", wardrobe'[1].color)
               /\ KeptOr(v, "season", "All", wardrobe'[1].season) ]_vars

\* C21 witness: the item of a response that had a category, no color and an
\* empty season is in the wardrobe
C21_Witness ==
    /\ Len(wardrobe) > 0
    /\ wardrobe[1].category = "Shoes"
    /\ wardrobe[1].color = "Unknown"
    /\ wardrobe[1].season = "All"
    /\ wardrobe[1].description = "Added from closet"


-----------------------------------------------------------------------------
(* The weather context given to the Stylist, against the weather card *)

EndsWith(str, suffix) ==
    Len(str) >= Len(suffix) /\ SubSeq(str, Len(str) - Len(suffix) + 1, Len(str)) = suffix

\* the condition a context string names
ConditionIn(context) ==
    CHOOSE c \in {"Clear/Sunny", "Cloudy", "Rainy/Cold", "none"} :
        IF \E d \in {"Clear/Sunny", "Cloudy", "Rainy/Cold"} : EndsWith(context, " and " \o d \o ".")
        THEN EndsWith(context, " and " \o c \o ".")
        ELSE c = "none"

\* the condition an icon of the weather card stands for
IconClass(icon) ==
    CASE icon \in {"sun", "moon"} -> "Clear/Sunny"
      [] icon = "cloud" -> "Cloudy"
      [] icon = "rain" -> "Rainy/Cold"

\* C22: the weather context string is the fixed default while there is no
\* weather snapshot; otherwise it names the snapshot's temperature and
\* "Clear/Sunny" for a code <= 3, "Cloudy" for a code in 4..60, "Rainy/Cold"
\* for a code > 60, and that condition is the one the icon of the weather
\* card stands for.
C22_ContextFollowsSnapshot ==
    LET context == getWeatherContextString
    IN  IF weather = JNull
        THEN context = "Temperature is 20C, clear skies."
        ELSE /\ SubSeq(context, 1, Len("Current weather is " \o DigitsOf(weather.temperature) \o "C"))
                    = "Current weather is " \o DigitsOf(weather.temperature) \o "C"
             /\ weather.weatherCode <= 3 => ConditionIn(context) = "Clear/Sunny"
             /\ weather.weatherCode \in 4..60 => ConditionIn(context) = "Cloudy"
             /\ weather.weatherCode > 60 => ConditionIn(context) = "Rainy/Cold"
             /\ WeatherWidget.shows = "card"
                    => IconClass(WeatherWidget.icon) = ConditionIn(context)

\* C22 witness: a snapshot with code 60, the last cloudy one, is on the card
C22_Witness ==
    /\ weather # JNull
    /\ weather.weatherCode = 60
    /\ WeatherWidget.shows = "card"
    /\ WeatherWidget.icon = "cloud"
    /\ ConditionIn(getWeatherContextString) = "Cloudy"


-----------------------------------------------------------------------------
(* The color facets of the Wardrobe view, over wardrobes of up to ten colors *)

\* a wardrobe of ten items whose colors start with ten different words
ColorfulWardrobe ==
    LET color == <<"Red", "Dark Red", "red velvet", "Blue", "Navy Blue", "Green",
                   "Black", "White", "Pink", "Grey">>
        category == <<"Top", "Bottom", "Top", "Shoes", "Top", "Bottom", "Outerwear",
                      "Top", "Accessory", "Other">>
    IN  [i \in 1..10 |->
            ClothingItem(DigitsOf(30 - i), CHOOSE image \in Files : TRUE,
                         category[i], color[i], "All", "Piece")]

InitFacets ==
    /\ currentView = "WARDROBE"
    /\ wardrobe \in {SubSeq(ColorfulWardrobe, 1, n) : n \in 0..10}
    /\ wishlist = <<>>
    /\ events = InitialEvents
    /\ isEventModalOpen = FALSE
    /\ newEvent = [title |-> "", time |-> "", icon |-> ""]
    /\ eventToDelete = null
    /\ weather = JNull
    /\ weatherLoading = TRUE
    /\ weatherError = null
    /\ geo = "mounting"
    /\ weatherRequests = 0
    /\ now = 30
    /\ lastAlert = null
    /\ WardrobeInitial
    /\ WishlistInitial
    /\ StylistInitial
    /\ call = [op |-> "none"]

NextFacets ==
    \/ Wardrobe_setActiveCategory
    \/ Wardrobe_setActiveColor

SpecFacets == InitFacets /\ [][NextFacets]_vars

\* the first words of the colors of the wardrobe
FirstWords == {FirstWord(wardrobe[i].color) : i \in 1..Len(wardrobe)}

\* the facets are distinct first words of colors: all of them, or eight
FacetsAreFirstWords ==
    /\ \A k \in 1..Len(colors) : colors[k] \in FirstWords
    /\ \A k, l \in 1..Len(colors) : k # l => colors[k] # colors[l]
    /\ Len(colors) = (IF Cardinality(FirstWords) < 8 THEN Cardinality(FirstWords) ELSE 8)

\* C23 (as claimed): the color facets are the distinct first words of the
\* items' colors, at most eight, and with a facet selected an item is shown
\* if and only if the first word of its color equals the facet, ignoring
\* case, and it passes the category filter.
C23_ShownIffFirstWordIsFacet ==
    /\ FacetsAreFirstWords
    /\ Truthy(activeColor)
          => filteredItems =
                SelectSeq(wardrobe, LAMBDA item :
                    /\ toLowerCase(FirstWord(item.color)) = toLowerCase(activeColor)
                    /\ (activeCategory = "All" \/ item.category = activeCategory))

\* C23: the color facets are the distinct first words of the items' colors,
\* at most eight, and with a facet selected an item is shown if and only if
\* its color contains the facet anywhere, ignoring case, and it passes the
\* category filter; every item whose first word equals the facet, ignoring
\* case, is among them.
C23_ShownIffColorContainsFacet ==
    /\ FacetsAreFirstWords
    /\ Truthy(activeColor)
          => /\ filteredItems =
                   SelectSeq(wardrobe, LAMBDA item :
                       /\ includes(toLowerCase(item.color), toLowerCase(activeColor))
                       /\ (activeCategory = "All" \/ item.category = activeCategory))
             /\ \A i \in 1..Len(wardrobe) :
                   ( /\ toLowerCase(FirstWord(wardrobe[i].color)) = toLowerCase(activeColor)
                     /\ (activeCategory = "All" \/ wardrobe[i].category = activeCategory) )
                   => \E k \in 1..Len(filteredItems) : filteredItems[k] = wardrobe[i]

\* C23 witness: ten first words give eight facets, and the facet "Red" shows
\* the "Dark Red" item, whose first word is "Dark"
C23_Witness ==
    /\ Cardinality(FirstWords) = 10
    /\ Len(colors) = 8
    /\ activeColor = "Red"
    /\ activeCategory = "Bottom"
    /\ Len(filteredItems) = 1
    /\ filteredItems[1].color = "Dark Red"


-----------------------------------------------------------------------------
(* Identifiers taken from the clock *)

\* C24: the identifier of every element created (a wardrobe item, a wishlist
\* item, an event) is the clock value read at its creation, whatever the
\* collection already holds: two creations that read the same clock value
\* yield the same id.
C24_IdsAreClockValues ==
    [][ /\ Len(wardrobe') > Len(wardrobe) => wardrobe'[1].id = DigitsOf(now)
        /\ Len(wishlist') > Len(wishlist) => wishlist'[1].id = DigitsOf(now)
        /\ Len(events') > Len(events) => events'[Len(events')].id = DigitsOf(now) ]_vars

\* C24 witness: the wardrobe holds two items with the same id
C24_Witness ==
    \E i, j \in 1..Len(wardrobe) : i # j /\ wardrobe[i].id = wardrobe[j].id


-----------------------------------------------------------------------------
(* Stylist: the two results *)

\* C25: in every reachable state of the Stylist view at most one of
\* generatedOutfit and weeklyPlan is non-null
C25_AtMostOneResult == generatedOutfit = JNull \/ weeklyPlan = JNull

\* C25 witness: a weekly plan is held after the tab was switched back to the
\* single-outfit mode while its request was outstanding
C25_Witness ==
    /\ currentView = "STYLIST"
    /\ TruthyJ(weeklyPlan)
    /\ generatedOutfit = JNull
    /\ mode = "SINGLE"
    /\ ~isLoading


-----------------------------------------------------------------------------
(* Wishlist: results of uploads that are no longer previewed *)

\* C26: the auto-filled name and the similarity banner always describe the
\* image currently previewed: whenever the continuation of an upload writes
\* the name field or the analysis result, the preview is the image of that
\* upload (it was neither cleared nor replaced by a later upload).
C26_ResultsDescribePreview ==
    [][ \A u \in BagToSet(Wishlist_uploads) :
            ( /\ u.mounted
              /\ u.phase = "calling"
              /\ Wishlist_uploads' = Wishlist_uploads (-) SetToBag({u})
              /\ (name' # name \/ analysisResult' # analysisResult) )
            => previewImage = u.image ]_vars


-----------------------------------------------------------------------------
(* Stylist: results and the selected mode *)

\* the tab a request was issued under
IssuedIn(r) ==
    IF r.kind = "outfit" THEN "SINGLE" ELSE IF r.kind = "weekly" THEN "WEEKLY" ELSE "INSPO"

\* C27: a result shown in the Stylist view comes from a request issued in
\* the currently selected mode: a mode switch leaves both results null, and
\* whenever the continuation of a request stores a result that is shown, the
\* selected mode is the one the request was issued under.
C27_ResultFromCurrentMode ==
    [][ /\ mode' # mode => (generatedOutfit' = JNull /\ weeklyPlan' = JNull)
        /\ \A r \in BagToSet(Stylist_requests) :
              ( /\ r.mounted
                /\ r.phase = "calling"
                /\ Stylist_requests' = Stylist_requests (-) SetToBag({r})
                /\ (TruthyJ(generatedOutfit') \/ TruthyJ(weeklyPlan')) )
              => mode = IssuedIn(r) ]_vars


-----------------------------------------------------------------------------
(* Loading flags under calls that complete *)

\* The four places that wait for an external call.  The weather effect
\* shares no state with the views, so the views are entered once it has
\* ended; a view can be left and entered again while its calls are
\* outstanding, a view starts a call when the other views have none
\* outstanding, and the Stylist tabs are switched between requests.
NextLoading ==
    \/ App_useEffect
    \/ getCurrentPosition_error
    \/ getCurrentPosition_success
    \/ fetchWeather_settled({Rejected, Json(CurrentWeather(15, 2, 1))})
    \/ (geo = "done" /\ Navigate)
    \/ (Wishlist_uploads = EmptyBag /\ Stylist_requests = EmptyBag
            /\ Wardrobe_handleFileUpload(Files))
    \/ Wardrobe_onloadend
    \/ Wardrobe_analyzed({Rejected})
    \/ (Wardrobe_uploads = EmptyBag /\ Stylist_requests = EmptyBag
            /\ Wishlist_handleFileSelect(Files))
    \/ Wishlist_onloadend
    \/ Wishlist_analyzed({Rejected, Json(JNull)})
    \/ Wishlist_similarityChecked({Rejected})
    \/ Wishlist_clearPreview
    \/ (~isLoading /\ Stylist_setMode)
    \/ (Wardrobe_uploads = EmptyBag /\ Wishlist_uploads = EmptyBag
            /\ Stylist_suggest({"Dinner Date", "Busy Week"}))
    \/ (Wardrobe_uploads = EmptyBag /\ Wishlist_uploads = EmptyBag
            /\ Stylist_handleInspoUpload(Files))
    \/ Stylist_onloadend
    \/ Stylist_settled(StylistOutfits, {Rejected})

\* Every call completes: the effect runs after the first render, the
\* position request is answered, every file read ends and every external
\* call settles, with a success or with a failure.
SpecLoading ==
    /\ Init
    /\ [][NextLoading]_vars
    /\ WF_vars(App_useEffect)
    /\ WF_vars(getCurrentPosition_error \/ getCurrentPosition_success)
    /\ WF_vars(fetchWeather_settled({Rejected, Json(CurrentWeather(15, 2, 1))}))
    /\ WF_vars(Wardrobe_onloadend)
    /\ WF_vars(Wardrobe_analyzed({Rejected}))
    /\ WF_vars(Wishlist_onloadend)
    /\ WF_vars(Wishlist_analyzed({Rejected, Json(JNull)}))
    /\ WF_vars(Wishlist_similarityChecked({Rejected}))
    /\ WF_vars(Stylist_onloadend)
    /\ WF_vars(Stylist_settled(StylistOutfits, {Rejected}))

\* C28: when every external call eventually completes, each loading flag
\* that is set is eventually cleared: isAnalyzing of the Wardrobe view,
\* isAnalyzing of the Wishlist view, isLoading of the Stylist view and
\* weatherLoading of the coordinator, whether the calls succeed or fail.
C28_LoadingFlagsAreCleared ==
    /\ Wardrobe_isAnalyzing ~> ~Wardrobe_isAnalyzing
    /\ Wishlist_isAnalyzing ~> ~Wishlist_isAnalyzing
    /\ isLoading ~> ~isLoading
    /\ weatherLoading ~> ~weatherLoading

\* C28 witness: the weather fetch has failed and its flag is cleared, and in
\* the Wishlist view an upload whose calls have settled left a preview and a
\* cleared flag
C28_Witness ==
    /\ ~weatherLoading
    /\ weatherError = "Could not fetch weather"
    /\ currentView = "WISHLIST"
    /\ Truthy(previewImage)
    /\ Wishlist_uploads = EmptyBag
    /\ ~Wishlist_isAnalyzing


-----------------------------------------------------------------------------
(* Wardrobe: classifications in flight *)

\* the uploads whose classification call has been issued and has not settled
InFlight(uploads) == {u \in BagToSet(uploads) : u.phase = "calling"}

\* C29: at most one wardrobe classification request is in flight at any
\* time, across leaving the Wardrobe view and entering it again
C29_OneClassificationInFlight ==
    LET calling == InFlight(Wardrobe_uploads)
    IN  /\ Cardinality(calling) <= 1
        /\ \A u \in calling : CopiesIn(u, Wardrobe_uploads) = 1


-----------------------------------------------------------------------------
(* The empty wardrobe *)

\* C30: with an empty wardrobe the three generate functions resolve with
\* null and checkSimilarity with isSimilar = false whatever the external
\* model would have answered (no request reaches it), and when a request the
\* Stylist view issued over an empty wardrobe completes, the view holds no
\* result, loading is cleared and the input interface is rendered.
C30_EmptyWardrobeNoRequest ==
    [][ /\ \A outcome \in OutfitPool :
              /\ generateOutfit(<<>>, getWeatherContextString, "Dinner Date", outcome)
                    = Return(JNull)
              /\ generateOutfitFromImage(<<>>, "data:image/jpeg;base64,A", outcome)
                    = Return(JNull)
        /\ \A outcome \in WeeklyPool :
              generateWeeklyPlan(<<>>, getWeatherContextString, "Busy Week", outcome)
                    = Return(JNull)
        /\ \A outcome \in SimilarityPool :
              LET r == checkSimilarity("data:image/jpeg;base64,A", <<>>, outcome)
              IN  r.ok /\ r.v.val.isSimilar = FALSE
        /\ \A r \in BagToSet(Stylist_requests) :
              ( /\ r.mounted
                /\ r.phase = "calling"
                /\ Len(r.w) = 0
                /\ Stylist_requests' = Stylist_requests (-) SetToBag({r}) )
              => /\ generatedOutfit' = JNull
                 /\ weeklyPlan' = JNull
                 /\ ~isLoading'
                 /\ InputShown' ]_vars

\* C30 witness: the Stylist view waits for a weekly plan it requested over
\* an empty wardrobe
C30_Witness ==
    /\ currentView = "STYLIST"
    /\ wardrobe = <<>>
    /\ isLoading
    /\ \E r \in BagToSet(Stylist_requests) :
          r.mounted /\ r.phase = "calling" /\ r.kind = "weekly" /\ Len(r.w) = 0

====
